---------------------------- MODULE Spec2Model ----------------------------
(***************************************************************************)
(* DroneFleet: the fleet coordinator (src/src/simulation/fleet.py), the    *)
(* drone record (src/src/simulation/drone.py) and the API handlers that    *)
(* write drone state (src/src/api/routes/drone.py).                        *)
(*                                                                         *)
(* Units.  Positions are cells of the planner's lattice along one line:    *)
(* one cell is grid_size = 0.001 degree, taken as 0.1 km.  battery_level,  *)
(* maintenance_score and component_health are in thousandths of a percent  *)
(* (100% = 100000).  Time is in minutes.  Floating-point products are      *)
(* fixed-point here; divisions round down.                                 *)
(***************************************************************************)
EXTENDS Integers, Sequences, FiniteSets, TLC

\* ------------------------------------------------------------- bounds
MaxPos == 8
MaxTime == 4
MaxForecastRuns == 1
MaxExpansions == 1001
MaxDrift == 11
MaxForecastCalls == 2

\* ------------------------------------------------- program constants
FullBattery == 100000
FullHealth == 100000
InitialAltitude == 100
MaxAltitudeSpec == 400
MinAltitudeSpec == 50
MaxWindSpeed == 15
MaxPrecipitation == 5
EmergencyReserve == 20000
MaintenanceGate == 80000
PlannerMinAltitude == 100
PlannerMaxAltitude == 400
SafetyMargin == 50
PointMinutes == 2
ForecastHours == 24

DroneIds == {"d1", "d2"}
Pos == 0..MaxPos
base_position == 0
Components == {"motors", "battery", "propellers", "controllers", "sensors"}
Statuses == {"idle", "in_transit", "delivering", "returning", "charging",
             "maintenance", "emergency"}

Abs(x) == IF x < 0 THEN -x ELSE x
Max(a, b) == IF a > b THEN a ELSE b
Min(a, b) == IF a < b THEN a ELSE b

RECURSIVE SumSeq(_)
SumSeq(s) == IF s = <<>> THEN 0 ELSE Head(s) + SumSeq(Tail(s))

RECURSIVE SumOver(_, _)
SumOver(f, S) ==
  IF S = {} THEN 0
  ELSE LET k == CHOOSE x \in S : TRUE IN f[k] + SumOver(f, S \ {k})

\* ------------------------------------------------------------ weather
\* A reading of the weather field: wind_speed m/s, precipitation mm/h,
\* visibility km, turbulence in percent of the 0..1 scale.
Calm == [wind_speed |-> 4, precipitation |-> 0, visibility |-> 10, turbulence |-> 10]
Gusty == [wind_speed |-> 12, precipitation |-> 2, visibility |-> 4, turbulence |-> 60]
Storm == [wind_speed |-> 30, precipitation |-> 8, visibility |-> 2, turbulence |-> 80]
Conditions == {Calm, Gusty, Storm}

\* WeatherCondition.is_safe_for_flight: the four sub-scores on a 0..600
\* scale (600 = 1.0); safe iff their mean is at least 0.7.
SafetyScores(c) ==
  [wind |-> Max(0, 600 - 40 * c.wind_speed),
   visibility |-> Min(600, Max(0, 75 * (c.visibility - 2))),
   precipitation |-> Max(0, 600 - 60 * c.precipitation),
   turbulence |-> 600 - 6 * c.turbulence]

is_safe_for_flight(c) ==
  LET s == SafetyScores(c)
  IN  s.wind + s.visibility + s.precipitation + s.turbulence >= 1680

\* WeatherSimulator.get_safe_altitude, metres.
get_safe_altitude(c) ==
  100 + Max(0, c.wind_speed - 5) * 10 + Max(0, 10 - c.visibility) * 20
      + c.turbulence \div 2

\* -------------------------------------------------------------- drone
NoAltitude == 0 - 1
NoWeather == [given |-> FALSE, wind_speed |-> 0, precipitation |-> 0]
GivenWeather(c) ==
  [given |-> TRUE, wind_speed |-> c.wind_speed, precipitation |-> c.precipitation]

\* Drone.__init__ with the default specification.
NewDrone(position) ==
  [position |-> position,
   last_position |-> position,
   altitude |-> InitialAltitude,
   battery_level |-> FullBattery,
   status |-> "idle",
   maintenance_score |-> FullHealth,
   component_health |-> [c \in Components |-> FullHealth],
   current_delivery |-> <<>>,
   emergency_status |-> "none"]

\* Drone._calculate_distance, in cells of 0.1 km.
Distance(a, b) == Abs(a - b)

_is_safe_altitude(altitude) ==
  MinAltitudeSpec <= altitude /\ altitude <= MaxAltitudeSpec

_is_safe_weather(w) ==
  w.wind_speed <= MaxWindSpeed /\ w.precipitation <= MaxPrecipitation

\* Drone._calculate_power_consumption: distance * 100 %/km, times
\* 1 + altitude/1000*0.1, times 1 + wind/max_wind*0.2 when weather is
\* given, times 1 + payload/max_payload*0.3 when carrying a delivery
\* (max_payload = 2.5 kg).
_calculate_power_consumption(dr, distance, w) ==
  LET alt == distance * (10000 + dr.altitude)
      wind == IF w.given THEN 75 + w.wind_speed ELSE 75
      load == IF dr.current_delivery # <<>>
              THEN 25 + 3 * dr.current_delivery[1].payload_weight ELSE 25
  IN  (alt * wind * load) \div (75 * 25)

HasSufficientPowerNoReserve(dr, power_needed) ==
  dr.battery_level - power_needed >= 0

_has_sufficient_power(dr, power_needed) ==
  dr.battery_level - power_needed >= EmergencyReserve

\* A wear step whose wear is negative: every component gains what it
\* should lose.
UpdateComponentHealthNegativeWear(dr, distance) ==
  LET h == [c \in Components |-> Max(0, dr.component_health[c] + distance)]
  IN  [dr EXCEPT !.component_health = h,
                 !.maintenance_score = SumOver(h, Components) \div Cardinality(Components)]

\* Drone._update_component_health: wear 0.01 % per km on every component
\* (the flight_time term is the time since last_updated, which the caller
\* set on the line before; random_wear is 0.1 * sin of total_flight_hours,
\* the sum of those gaps, which is below a thousandth of a percent and
\* not negative while the sum is under pi hours), then the mean.
_update_component_health(dr, distance) ==
  LET h == [c \in Components |-> Max(0, dr.component_health[c] - distance)]
  IN  [dr EXCEPT !.component_health = h,
                 !.maintenance_score = SumOver(h, Components) \div Cardinality(Components)]

_initiate_weather_safety_protocol(dr) ==
  [dr EXCEPT !.emergency_status = "unsafe_weather", !.status = "emergency"]

_initiate_low_battery_protocol(dr) ==
  [dr EXCEPT !.emergency_status = "low_battery", !.status = "emergency"]

\* A new_position that is no (lat, lon) pair: unpacking it in
\* _calculate_distance (drone.py:180) raises.
BadPosition == 0 - 1

\* The try block of Drone.update_position (drone.py:119-149): the drone
\* after it, the flag returned, and whether an exception left the block.
update_position_try(dr, new_position, new_altitude, w) ==
  IF new_position = BadPosition
  THEN [drone |-> dr, ok |-> FALSE, raised |-> TRUE]
  ELSE
  LET distance == Distance(dr.position, new_position)
      power_consumed == _calculate_power_consumption(dr, distance, w)
  IN  IF new_altitude # NoAltitude /\ ~_is_safe_altitude(new_altitude)
      THEN [drone |-> dr, ok |-> FALSE, raised |-> FALSE]
      ELSE IF w.given /\ ~_is_safe_weather(w)
      THEN [drone |-> _initiate_weather_safety_protocol(dr), ok |-> FALSE,
            raised |-> FALSE]
      ELSE IF ~_has_sufficient_power(dr, power_consumed)
      THEN [drone |-> _initiate_low_battery_protocol(dr), ok |-> FALSE,
            raised |-> FALSE]
      ELSE [drone |-> _update_component_health(
                        [dr EXCEPT !.last_position = dr.position,
                                   !.position = new_position,
                                   !.altitude = IF new_altitude # NoAltitude
                                                THEN new_altitude ELSE dr.altitude,
                                   !.battery_level = dr.battery_level - power_consumed],
                        distance),
            ok |-> TRUE, raised |-> FALSE]

\* update_position without the except clause of drone.py:151-154.
UpdatePositionNoExcept(dr, new_position, new_altitude, w) ==
  update_position_try(dr, new_position, new_altitude, w)

\* Drone.update_position: the try block, and the except clause of
\* drone.py:151-154 for any exception that leaves it.
update_position(dr, new_position, new_altitude, w) ==
  LET r == update_position_try(dr, new_position, new_altitude, w)
  IN  IF r.raised
      THEN [drone |-> [r.drone EXCEPT !.emergency_status = "update_failed",
                                      !.status = "emergency"],
            ok |-> FALSE, raised |-> FALSE]
      ELSE r

\* Drone.start_delivery, called at fleet.py:113 and not defined in drone.py:
\* refuses unless the drone is idle, else records the delivery and goes
\* in_transit.
start_delivery(dr, destination, payload_weight) ==
  IF dr.status # "idle"
  THEN [drone |-> dr, ok |-> FALSE]
  ELSE [drone |-> [dr EXCEPT !.status = "in_transit",
                             !.current_delivery =
                                <<[destination |-> destination,
                                   payload_weight |-> payload_weight]>>],
        ok |-> TRUE]

\* Drone.complete_delivery, called at fleet.py:209: back to idle after the
\* drop-off.
complete_delivery(dr) ==
  [dr EXCEPT !.status = "idle", !.current_delivery = <<>>]

\* Drone.charge, called at fleet.py:215 with 1.0: 20 % per hour, capped at
\* 100 %, idle again from 95 %.
charge(dr, hours) ==
  LET b == Min(FullBattery, dr.battery_level + 20000 * hours)
  IN  [dr EXCEPT !.battery_level = b,
                 !.status = IF b >= 95000 THEN "idle" ELSE dr.status]

\* Drone.return_to_base, called at fleet.py:217: one update_position
\* against the base, idle once there.
return_to_base(dr, base) ==
  LET r == update_position(dr, base, NoAltitude, NoWeather)
  IN  IF r.ok THEN [r.drone EXCEPT !.status = "idle"] ELSE r.drone

\* Drone.calculate_power_consumption(distance, payload_weight), called at
\* fleet.py:135: distance * 100 %/km * (1 + payload/max_payload).
calculate_power_consumption(distance, payload_weight) ==
  distance * 400 * (25 + 10 * payload_weight)

\* -------------------------------------------------------------- routes
\* The weather grid has a cell every grid_resolution = 0.01 degree, i.e.
\* every 10 lattice cells; a field gives the conditions the simulator
\* returns around each weather cell.
WeatherCells == {0, 10}
Fields == [WeatherCells -> Conditions]
Uniform(c) == [w \in WeatherCells |-> c]

\* RouteOptimizer._get_nearest_weather: min() keeps the first of equally
\* near keys.
NearestCell(position) == IF position <= 5 THEN 0 ELSE 10

conditions_at(field, position) == field[NearestCell(position)]

\* RouteOptimizer._a_star_search on the line: the lattice cells from
\* start to end.
_a_star_search(start, end) ==
  [i \in 1..(Distance(start, end) + 1) |->
     IF end >= start THEN start + (i - 1) ELSE start - (i - 1)]

\* RouteOptimizer._adjust_altitude_for_weather.
_adjust_altitude_for_weather(current_altitude, weather) ==
  LET a1 == current_altitude
            + (IF weather.wind_speed > 10 THEN Min(50, weather.wind_speed * 2) ELSE 0)
      a2 == a1 + (IF weather.visibility < 5 THEN (5 - weather.visibility) * 20 ELSE 0)
      a3 == a2 + (IF weather.precipitation > 0 THEN Min(30, weather.precipitation * 5) ELSE 0)
  IN  Max(PlannerMinAltitude, Min(PlannerMaxAltitude, a3))

\* _create_altitude_profile (no no-fly zone is configured by FleetManager)
\* followed by _optimize_for_weather.
_optimize_for_weather(path, weather_data) ==
  [i \in 1..Len(path) |->
     [position |-> path[i],
      altitude |-> _adjust_altitude_for_weather(
                     PlannerMinAltitude, conditions_at(weather_data, path[i]))]]

_can_skip_point(prev, current, next_point) ==
  Abs(prev.altitude - next_point.altitude) <= SafetyMargin

RECURSIVE SmoothFrom(_, _, _)
SmoothFrom(route_points, smoothed, current_idx) ==
  IF current_idx >= Len(route_points)
  THEN Append(smoothed, route_points[Len(route_points)])
  ELSE IF _can_skip_point(smoothed[Len(smoothed)], route_points[current_idx],
                          route_points[current_idx + 1])
       THEN SmoothFrom(route_points, smoothed, current_idx + 1)
       ELSE SmoothFrom(route_points, Append(smoothed, route_points[current_idx]),
                       current_idx + 1)

\* RouteOptimizer._smooth_path.
_smooth_path(route_points) ==
  IF Len(route_points) <= 2 THEN route_points
  ELSE SmoothFrom(route_points, <<route_points[1]>>, 2)

\* RouteOptimizer.calculate_route.
calculate_route(start, end, weather_data) ==
  _smooth_path(_optimize_for_weather(_a_star_search(start, end), weather_data))

\* WeatherSimulator.get_flight_risks: one entry per point once a forecast
\* snapshot exists, none before (get_conditions returns None).
get_flight_risks(route, field, forecast) ==
  IF forecast = 0 THEN <<>>
  ELSE [i \in 1..Len(route) |->
          LET c == conditions_at(field, route[i].position)
          IN  [is_safe |-> is_safe_for_flight(c), safety_scores |-> SafetyScores(c)]]

RouteLength(route) ==
  SumSeq([i \in 1..(Len(route) - 1) |->
            Distance(route[i].position, route[i + 1].position)])

\* FleetManager._calculate_route_score, in thousandths of a point; only
\* called with a non-empty risks list (an empty one divides by zero).
_calculate_route_score(dr, route, risks, payload_weight) ==
  LET estimated_power ==
        SumSeq([i \in 1..(Len(route) - 1) |->
                  calculate_power_consumption(
                    Distance(route[i].position, route[i + 1].position),
                    payload_weight)])
      battery_score == 100000 - (estimated_power * 1000) \div (dr.battery_level \div 100)
      weather_score ==
        SumSeq([i \in 1..Len(risks) |->
                  IF risks[i].is_safe THEN 100000
                  ELSE LET s == risks[i].safety_scores
                       IN ((s.wind + s.visibility + s.precipitation + s.turbulence)
                             * 25000) \div 600]) \div Len(risks)
      length_score == 10000000 \div (100 + RouteLength(route))
  IN  (3 * dr.maintenance_score + 3 * battery_score + 3 * weather_score
         + length_score) \div 10

\* --------------------------------------------------------------- fleet
VARIABLES
  drones,             \* FleetManager.drones: id -> Drone
  drone_order,        \* insertion order of FleetManager.drones
  created,            \* ids handed out so far (uuid4 never repeats)
  delivery_routes,    \* FleetManager.delivery_routes: id -> route
  active_deliveries,  \* FleetManager.active_deliveries: id -> record
  forecast_data,      \* number of snapshots in WeatherSimulator.forecast_data
  now,                \* datetime.now(), minutes
  ret,                \* the last call and what it returned
  lock,               \* FleetManager._lock: the thread holding it, or "free"
  pc,                 \* where each host thread is inside its call
  local,              \* each host thread's local variables
  weather_sim,        \* WeatherSimulator: current_conditions and forecast_data
  writer,             \* where the weather thread is inside update_conditions
  reader,             \* where a caller is inside get_conditions
  search,             \* RouteOptimizer._a_star_search: its locals and result
  cell,               \* one grid cell of WeatherSimulator.current_conditions
  craft               \* a Drone built with a specification of the caller's

vars == <<drones, drone_order, created, delivery_routes, active_deliveries,
          forecast_data, now, ret, lock, pc, local, weather_sim, writer, reader,
          search, cell, craft>>
threadvars == <<lock, pc, local>>
simvars == <<weather_sim, writer, reader, search, cell, craft>>

EmptyDict == [k \in {} |-> 0]
Put(dict, key, value) ==
  [k \in (DOMAIN dict) \cup {key} |-> IF k = key THEN value ELSE dict[k]]
DelKeepsEntry(f, k) == f

Del(dict, key) == [k \in (DOMAIN dict) \ {key} |-> dict[k]]
Remove(seq, x) == SelectSeq(seq, LAMBDA y : y # x)

Returned(op, val) == [op |-> op, val |-> val]

\* FleetManager.get_available_drones.
get_available_drones(drs, order) ==
  SelectSeq(order, LAMBDA d : drs[d].status = "idle"
                              /\ drs[d].maintenance_score >= MaintenanceGate)

NoBest == [found |-> FALSE, drone |-> "None", route |-> <<>>, score |-> 0]

\* A candidate loop that replaces the best on an equal score (>= at
\* fleet.py:103).
RECURSIVE ScoreLoopLastWins(_, _, _, _, _, _, _)
ScoreLoopLastWins(available, drs, forecast, destination, payload_weight, field, best) ==
  IF available = <<>> THEN best
  ELSE LET d == Head(available)
           route == calculate_route(drs[d].position, destination, field)
           risks == get_flight_risks(route, field, forecast)
           route_score == _calculate_route_score(drs[d], route, risks, payload_weight)
           better == IF ~best.found \/ route_score >= best.score
                     THEN [found |-> TRUE, drone |-> d, route |-> route,
                           score |-> route_score]
                     ELSE best
       IN  ScoreLoopLastWins(Tail(available), drs, forecast, destination,
                             payload_weight, field, better)

\* The candidate loop of assign_delivery (fleet.py:78-106): the first
\* candidate beats -inf, a later one must be strictly better.
RECURSIVE ScoreLoop(_, _, _, _, _, _, _)
ScoreLoop(available, drs, forecast, destination, payload_weight, field, best) ==
  IF available = <<>> THEN best
  ELSE LET d == Head(available)
           route == calculate_route(drs[d].position, destination, field)
           risks == get_flight_risks(route, field, forecast)
           route_score == _calculate_route_score(drs[d], route, risks, payload_weight)
           better == IF ~best.found \/ route_score > best.score
                     THEN [found |-> TRUE, drone |-> d, route |-> route,
                           score |-> route_score]
                     ELSE best
       IN  ScoreLoop(Tail(available), drs, forecast, destination, payload_weight,
                     field, better)

DeliveryRecordOfBase(destination, payload_weight, start_time, route) ==
  [destination |-> base_position, payload_weight |-> payload_weight,
   start_time |-> start_time, route |-> route]

DeliveryRecord(destination, payload_weight, start_time, route) ==
  [destination |-> destination, payload_weight |-> payload_weight,
   start_time |-> start_time, route |-> route]

\* FleetManager.assign_delivery on a fleet state st = [drones, order,
\* delivery_routes, active_deliveries]: the value returned ("raised" for
\* the ZeroDivisionError of an empty risks list) and the state left.
assign_delivery(st, forecast, tnow, destination, payload_weight, field) ==
  LET available == get_available_drones(st.drones, st.order)
  IN  IF available = <<>> THEN [val |-> "None", st |-> st]
      ELSE IF forecast = 0 THEN [val |-> "raised", st |-> st]
      ELSE
        LET best == ScoreLoop(available, st.drones, forecast, destination,
                              payload_weight, field, NoBest)
            started == start_delivery(st.drones[best.drone], destination, payload_weight)
            st1 == [st EXCEPT !.delivery_routes = Put(@, best.drone, best.route)]
        IN  IF started.ok
            THEN [val |-> best.drone,
                  st |-> [st1 EXCEPT
                            !.drones[best.drone] = started.drone,
                            !.active_deliveries =
                               Put(@, best.drone,
                                   DeliveryRecord(destination, payload_weight, tnow,
                                                  best.route))]]
            ELSE [val |-> "None", st |-> st1]

\* FleetManager._handle_unsafe_weather.
_handle_unsafe_weather(st, d, field) ==
  LET safe_altitude == get_safe_altitude(conditions_at(field, st.drones[d].position))
  IN  IF safe_altitude <= PlannerMaxAltitude
      THEN [st EXCEPT !.drones[d].altitude = safe_altitude]
      ELSE [st EXCEPT !.drones[d].status = "returning",
                      !.delivery_routes = Del(@, d),
                      !.active_deliveries = Del(@, d)]

InDeliveryAnyStatus(dr, d, st) == d \in DOMAIN st.delivery_routes

\* The condition of fleet.py:187.
InDelivery(dr, d, st) == d \in DOMAIN st.delivery_routes /\ dr.status = "in_transit"

ChargingOrIdle(dr) == dr.status \in {"charging", "idle"}

\* fleet.py:192-193: int() truncates towards zero.
PointIndex(current_time, start_time) ==
  LET elapsed_time == current_time - start_time
  IN  IF elapsed_time >= 0
      THEN elapsed_time \div PointMinutes
      ELSE 0 - ((0 - elapsed_time) \div PointMinutes)

\* route[point_index] of a Python list: a negative index counts from the
\* end; the list has no such item when the result is 0.
ListItem(route, point_index) ==
  IF point_index >= 0 THEN point_index + 1
  ELSE IF 0 - point_index <= Len(route) THEN Len(route) + point_index + 1
  ELSE 0

\* The condition of fleet.py:213.
IsCharging(dr) == dr.status = "charging"

\* One iteration of the loop of update_fleet_status (fleet.py:185-217);
\* raised is the KeyError of fleet.py:189 or the IndexError of :197.
TickDrone(st, d, tnow, field) ==
  LET dr == st.drones[d]
  IN  IF InDelivery(dr, d, st)
      THEN IF d \notin DOMAIN st.active_deliveries
           THEN [st EXCEPT !.raised = TRUE]
           ELSE
             LET route == st.delivery_routes[d]
                 delivery == st.active_deliveries[d]
                 point_index == PointIndex(tnow, delivery.start_time)
             IN  IF point_index < Len(route)
                 THEN IF ListItem(route, point_index) = 0
                      THEN [st EXCEPT !.raised = TRUE]
                      ELSE
                      LET new_position == route[ListItem(route, point_index)].position
                          moved == [st EXCEPT !.drones[d] =
                                      update_position(dr, new_position, NoAltitude,
                                                      NoWeather).drone]
                      IN  IF ~is_safe_for_flight(conditions_at(field, new_position))
                          THEN _handle_unsafe_weather(moved, d, field)
                          ELSE moved
                 ELSE [st EXCEPT !.drones[d] = complete_delivery(dr),
                                 !.delivery_routes = Del(@, d),
                                 !.active_deliveries = Del(@, d)]
      ELSE IF IsCharging(dr)
      THEN [st EXCEPT !.drones[d] = charge(dr, 1)]
      ELSE IF dr.status = "returning"
      THEN [st EXCEPT !.drones[d] = return_to_base(dr, base_position)]
      ELSE st

RECURSIVE TickLoop(_, _, _, _)
TickLoop(st, order, tnow, field) ==
  IF order = <<>> \/ st.raised THEN st
  ELSE TickLoop(TickDrone(st, Head(order), tnow, field), Tail(order), tnow, field)

FleetState ==
  [drones |-> drones, order |-> drone_order, delivery_routes |-> delivery_routes,
   active_deliveries |-> active_deliveries, raised |-> FALSE]

\* FleetManager.update_fleet_status.
update_fleet_status(st, tnow, field) == TickLoop(st, st.order, tnow, field)

Install(st) ==
  /\ drones' = st.drones
  /\ drone_order' = st.order
  /\ delivery_routes' = st.delivery_routes
  /\ active_deliveries' = st.active_deliveries

\* FleetManager.remove_drone.
remove_drone(st, d) ==
  IF d \in DOMAIN st.drones
  THEN [st EXCEPT !.drones = Del(@, d), !.order = Remove(@, d)]
  ELSE st

\* delivery_routes[d] read by subscript: raises for a drone without a route.
GetRouteBySubscript(st, d) ==
  IF d \in DOMAIN st.delivery_routes THEN "route" ELSE "raised"

\* FleetManager.get_drone: dict.get, the drone (named by its id) or None.
get_drone(st, d) == IF d \in DOMAIN st.drones THEN d ELSE "None"

\* FleetManager.get_drone_route: dict.get, the stored route or None.
get_drone_route(st, d) ==
  IF d \in DOMAIN st.delivery_routes THEN "route" ELSE "None"

\* -------------------------------------------------- weather simulator
\* Positions of the simulator are <<lat, lon>> in lattice cells of 0.001
\* degree; the weather grid has a point every grid_resolution = 0.01
\* degree.
grid_resolution == 10
region_bounds == <<<<0, 0>>, <<20, 20>>>>
RunPeriod == 5
NoTime == 0 - 1

\* numpy.arange(lo, hi, step): hi is excluded.
Arange(lo, hi, step) == {x \in lo..(hi - 1) : (x - lo) % step = 0}

\* The keys of current_conditions, and their insertion order (_initialize_weather).
GridPoints ==
  Arange(region_bounds[1][1], region_bounds[2][1], grid_resolution)
    \X Arange(region_bounds[1][2], region_bounds[2][2], grid_resolution)
GridOrder == <<<<0, 0>>, <<0, 10>>, <<10, 0>>, <<10, 10>>>>

InRegion(position) ==
  /\ region_bounds[1][1] <= position[1] /\ position[1] <= region_bounds[2][1]
  /\ region_bounds[1][2] <= position[2] /\ position[2] <= region_bounds[2][2]

\* A stored cell: the condition and the evolution step that wrote it
\* (0 for _initialize_weather).
Cell(c, step) == [conditions |-> c, step |-> step]

\* WeatherSimulator.__init__.
NewWeatherSimulator ==
  [current_conditions |-> [p \in GridPoints |-> Cell(Calm, 0)],
   forecast_data |-> EmptyDict,
   forecast_times |-> <<>>]

\* _evolve_weather: the random walk either leaves a reading where it is or
\* moves it to the next worse one, as the run's draw says.
Worse(c) == IF c = Calm THEN Gusty ELSE Storm
_evolve_weather(c, draw) == IF draw = "worsen" THEN Worse(c) ELSE c
Draws == {"steady", "worsen"}

\* Python round(n / d) for d > 0: to the nearest integer, halves to even.
PyRound(n, d) ==
  LET q == n \div d
      r == n - q * d
  IN  IF 2 * r < d THEN q
      ELSE IF 2 * r > d THEN q + 1
      ELSE IF q % 2 = 0 THEN q ELSE q + 1

\* _interpolate_conditions, weather.py:168-176.
nearby_points(position) ==
  LET grid_lat == PyRound(position[1], grid_resolution) * grid_resolution
      grid_lon == PyRound(position[2], grid_resolution) * grid_resolution
  IN  << <<grid_lat, grid_lon>>,
         <<grid_lat + grid_resolution, grid_lon>>,
         <<grid_lat, grid_lon + grid_resolution>>,
         <<grid_lat + grid_resolution, grid_lon + grid_resolution>> >>

RECURSIVE SqrtBetween(_, _, _)
SqrtBetween(n, lo, hi) ==
  IF lo = hi THEN lo
  ELSE LET mid == (lo + hi + 1) \div 2
       IN  IF mid * mid <= n THEN SqrtBetween(n, mid, hi)
           ELSE SqrtBetween(n, lo, mid - 1)
ISqrt(n) == SqrtBetween(n, 0, 46340)

\* weather.py:181-182: 1 / (distance + 1e-6) with the distance in degrees,
\* i.e. 10^6 / (distance in millionths of a degree + 1).
Weight(position, point) ==
  LET d2 == (position[1] - point[1]) * (position[1] - point[1])
            + (position[2] - point[2]) * (position[2] - point[2])
  IN  1000000 \div (ISqrt(d2 * 1000000) + 1)

total_weight(position) ==
  SumSeq([i \in 1..4 |-> Weight(position, nearby_points(position)[i])])

\* What get_conditions returns: None, or a WeatherCondition.
NoConditions ==
  [is_none |-> TRUE, wind_speed |-> 0, precipitation |-> 0, visibility |-> 0,
   turbulence |-> 0]
ZeroSums == [wind_speed |-> 0, precipitation |-> 0, visibility |-> 0, turbulence |-> 0]

\* weather.py:200-204, one nearby point: a point missing from the dict
\* adds nothing.
AddPoint(sums, conditions_dict, position, point) ==
  IF point \in DOMAIN conditions_dict
  THEN LET c == conditions_dict[point].conditions
           w == Weight(position, point)
       IN  [wind_speed |-> sums.wind_speed + c.wind_speed * w,
            precipitation |-> sums.precipitation + c.precipitation * w,
            visibility |-> sums.visibility + c.visibility * w,
            turbulence |-> sums.turbulence + c.turbulence * w]
  ELSE sums

\* weather.py:186 and 206: the weights are normalised by their total, the
\* sums rounded to whole units.
WeatherCondition(sums, position) ==
  LET t == total_weight(position)
  IN  [is_none |-> FALSE,
       wind_speed |-> (sums.wind_speed + t \div 2) \div t,
       precipitation |-> (sums.precipitation + t \div 2) \div t,
       visibility |-> (sums.visibility + t \div 2) \div t,
       turbulence |-> (sums.turbulence + t \div 2) \div t]

\* _interpolate_conditions over a dict nobody writes meanwhile.
_interpolate_conditions(position, conditions_dict) ==
  LET pts == nearby_points(position)
      s1 == AddPoint(ZeroSums, conditions_dict, position, pts[1])
      s2 == AddPoint(s1, conditions_dict, position, pts[2])
      s3 == AddPoint(s2, conditions_dict, position, pts[3])
      s4 == AddPoint(s3, conditions_dict, position, pts[4])
  IN  WeatherCondition(s4, position)

\* get_conditions, weather.py:158: min() keeps the first of equally near
\* forecast times, in the order of the key list.
TimeGap(t1, t2) == Abs(t1 - t2)
RECURSIVE NearestFrom(_, _, _, _)
NearestFrom(times, time, i, best) ==
  IF i > Len(times) THEN best
  ELSE NearestFrom(times, time, i + 1,
                   IF TimeGap(times[i], time) < TimeGap(best, time)
                   THEN times[i] ELSE best)
nearest_time(times, time) == NearestFrom(times, time, 2, times[1])

\* get_safe_altitude, weather.py:212-227, on what get_conditions returned.
safe_altitude_of(conditions) ==
  IF conditions.is_none THEN 100 ELSE get_safe_altitude(conditions)

QueryPositions == {<<0, 0>>, <<3, 4>>, <<10, 10>>, <<0 - 3, 5>>, <<40, 40>>}
QueryTimes == {NoTime, 2, 100}
Queries == {"get_conditions", "get_safe_altitude"}

WriterIdle == [pc |-> "sleeping", todo |-> <<>>, hour |-> 0, run |-> 0, draw |-> "steady"]
ReaderIdle ==
  [pc |-> "idle", call |-> "none", position |-> <<0, 0>>, time |-> NoTime,
   source |-> NoTime, keys |-> <<>>, i |-> 0, sums |-> ZeroSums, steps |-> {},
   partial |-> FALSE, result |-> NoConditions, altitude |-> 0]

\* ------------------------------------------- route planner in the plane
\* Positions are <<lat, lon>> in half cells: 0.0005 degree, 55.6 m.  A
\* step of the search is grid_size = 0.001 degree; the goal test reads the
\* same 0.001 as kilometres, i.e. 10 dm.
grid_size == 2
GoalRadius == 10

\* _calculate_distance (Haversine, over a few hundred metres), decimetres.
_calculate_distance(point1, point2) ==
  LET d2 == (point2[1] - point1[1]) * (point2[1] - point1[1])
            + (point2[2] - point1[2]) * (point2[2] - point1[2])
  IN  ISqrt(d2 * 556 * 556)

heuristic(a, b) == _calculate_distance(a, b)

\* point_in_polygon, route.py:183-197: the ray cast, edge by edge; x is
\* point[0] and y is point[1].
RECURSIVE CastFrom(_, _, _, _, _, _)
CastFrom(x, y, polygon, i, p1, inside) ==
  IF i > Len(polygon) THEN inside
  ELSE LET p2 == polygon[(i % Len(polygon)) + 1]
           p1x == p1[1]
           p1y == p1[2]
           p2x == p2[1]
           p2y == p2[2]
           crosses ==
             /\ y > Min(p1y, p2y)
             /\ y <= Max(p1y, p2y)
             /\ x <= Max(p1x, p2x)
             /\ \/ p1x = p2x
                \/ IF p2y > p1y
                   THEN (x - p1x) * (p2y - p1y) <= (y - p1y) * (p2x - p1x)
                   ELSE (x - p1x) * (p2y - p1y) >= (y - p1y) * (p2x - p1x)
       IN  CastFrom(x, y, polygon, i + 1, p2, IF crosses THEN ~inside ELSE inside)

point_in_polygon(x, y, polygon) == CastFrom(x, y, polygon, 0, polygon[1], FALSE)

\* RouteOptimizer._is_in_no_fly_zone.
_is_in_no_fly_zone(no_fly_zones, point) ==
  \E z \in 1..Len(no_fly_zones) : point_in_polygon(point[1], point[2], no_fly_zones[z])

\* get_neighbors, route.py:61-71, in the order the loops produce them.
Offsets ==
  << <<0 - grid_size, 0 - grid_size>>, <<0 - grid_size, 0>>, <<0 - grid_size, grid_size>>,
     <<0, 0 - grid_size>>, <<0, grid_size>>,
     <<grid_size, 0 - grid_size>>, <<grid_size, 0>>, <<grid_size, grid_size>> >>
\* The eight lattice points around pos, inside a zone or not.
AllNeighbors(no_fly_zones, pos) ==
  [k \in 1..8 |-> <<pos[1] + Offsets[k][1], pos[2] + Offsets[k][2]>>]
get_neighbors(no_fly_zones, pos) ==
  SelectSeq([k \in 1..8 |-> <<pos[1] + Offsets[k][1], pos[2] + Offsets[k][2]>>],
            LAMBDA new_pos : ~_is_in_no_fly_zone(no_fly_zones, new_pos))

\* The heap of (f_score, position) tuples, kept as the sorted list of its
\* items: heappop takes the least tuple.
TupleLess(a, b) ==
  \/ a[1] < b[1]
  \/ a[1] = b[1] /\ a[2][1] < b[2][1]
  \/ a[1] = b[1] /\ a[2][1] = b[2][1] /\ a[2][2] < b[2][2]

\* The number of items of the sorted list that are below item.
RECURSIVE CountBelow(_, _, _, _)
CountBelow(heap, item, lo, hi) ==
  IF lo = hi THEN lo
  ELSE LET mid == (lo + hi + 1) \div 2
       IN  IF TupleLess(heap[mid], item) THEN CountBelow(heap, item, mid, hi)
           ELSE CountBelow(heap, item, lo, mid - 1)

heappush(heap, item) ==
  LET k == CountBelow(heap, item, 0, Len(heap))
  IN  SubSeq(heap, 1, k) \o <<item>> \o SubSeq(heap, k + 1, Len(heap))

\* _a_star_search, route.py:74-78.
NewSearch(no_fly_zones, start, end) ==
  [pc |-> "searching", no_fly_zones |-> no_fly_zones, start |-> start, end |-> end,
   open_set |-> << <<0, start>> >>,
   came_from |-> EmptyDict,
   g_score |-> [p \in {start} |-> 0],
   closed_set |-> {},
   expansions |-> 0,
   route |-> <<>>]

\* _a_star_search, route.py:88-98: the neighbours of current from the k-th on.
RECURSIVE Relax(_, _, _, _)
Relax(s, current, neighbors, k) ==
  IF k > Len(neighbors) THEN s
  ELSE LET neighbor == neighbors[k]
           tentative_g_score == s.g_score[current] + _calculate_distance(current, neighbor)
       IN  IF neighbor \in s.closed_set THEN Relax(s, current, neighbors, k + 1)
           ELSE IF neighbor \notin DOMAIN s.g_score
                   \/ tentative_g_score < s.g_score[neighbor]
           THEN Relax([s EXCEPT
                         !.came_from = Put(@, neighbor, current),
                         !.g_score = Put(@, neighbor, tentative_g_score),
                         !.open_set = heappush(@, <<tentative_g_score
                                                      + heuristic(neighbor, s.end),
                                                    neighbor>>)],
                      current, neighbors, k + 1)
           ELSE Relax(s, current, neighbors, k + 1)

\* RouteOptimizer._reconstruct_path: from current back to the start.
RECURSIVE PathBack(_, _)
PathBack(came_from, current) ==
  IF current \in DOMAIN came_from
  THEN Append(PathBack(came_from, came_from[current]), current)
  ELSE <<current>>
_reconstruct_path(came_from, current) == PathBack(came_from, current)

\* RouteOptimizer._calculate_optimal_altitude, metres: zone after zone, a
\* zone with a corner nearer than 1 km lifts the altitude.
RECURSIVE AltitudeFrom(_, _, _, _)
AltitudeFrom(no_fly_zones, point, z, altitude) ==
  IF z > Len(no_fly_zones) THEN altitude
  ELSE LET zone == no_fly_zones[z]
           distances == {_calculate_distance(point, zone[v]) : v \in 1..Len(zone)}
           min_distance == CHOOSE d \in distances : \A e \in distances : d <= e
       IN  AltitudeFrom(no_fly_zones, point, z + 1,
                        IF min_distance < 10000
                        THEN Min(PlannerMaxAltitude,
                                 altitude + ((10000 - min_distance) * SafetyMargin) \div 10000)
                        ELSE altitude)
_calculate_optimal_altitude(no_fly_zones, point) ==
  AltitudeFrom(no_fly_zones, point, 1, PlannerMinAltitude)

\* RouteOptimizer._create_altitude_profile.
_create_altitude_profile(no_fly_zones, path) ==
  [i \in 1..Len(path) |->
     [position |-> path[i],
      altitude |-> _calculate_optimal_altitude(no_fly_zones, path[i])]]

\* RouteOptimizer._can_skip_point with no-fly zones configured.
CanSkipPoint(no_fly_zones, prev, current, next_point) ==
  /\ ~_is_in_no_fly_zone(no_fly_zones, current.position)
  /\ Abs(prev.altitude - next_point.altitude) <= SafetyMargin

\* RouteOptimizer._smooth_path with no-fly zones configured.
RECURSIVE SmoothAround(_, _, _, _)
SmoothAround(no_fly_zones, route_points, smoothed, current_idx) ==
  IF current_idx >= Len(route_points)
  THEN Append(smoothed, route_points[Len(route_points)])
  ELSE IF CanSkipPoint(no_fly_zones, smoothed[Len(smoothed)],
                       route_points[current_idx], route_points[current_idx + 1])
       THEN SmoothAround(no_fly_zones, route_points, smoothed, current_idx + 1)
       ELSE SmoothAround(no_fly_zones, route_points,
                         Append(smoothed, route_points[current_idx]), current_idx + 1)
SmoothPath(no_fly_zones, route_points) ==
  IF Len(route_points) <= 2 THEN route_points
  ELSE SmoothAround(no_fly_zones, route_points, <<route_points[1]>>, 2)

\* RouteOptimizer.calculate_route without weather_data, from the path the
\* search returned.
RouteOfPath(no_fly_zones, path) ==
  IF path = <<>> THEN <<>>
  ELSE SmoothPath(no_fly_zones, _create_altitude_profile(no_fly_zones, path))

\* The no-fly zones a RouteOptimizer is built with: none (FleetManager's),
\* a wall across the straight line, a ring of four walls around the origin.
Rectangle(lat1, lon1, lat2, lon2) ==
  << <<lat1, lon1>>, <<lat2, lon1>>, <<lat2, lon2>>, <<lat1, lon2>> >>
NoZones == <<>>
Wall == << Rectangle(3, 0 - 3, 5, 3) >>
Ring == << Rectangle(0 - 3, 0 - 3, 0 - 1, 3), Rectangle(1, 0 - 3, 3, 3),
           Rectangle(0 - 1, 0 - 3, 1, 0 - 1), Rectangle(0 - 1, 1, 1, 3) >>

\* The calls of calculate_route: straight, around the wall, from inside
\* the wall, enclosed by the ring, and to an end between two lattice points.
Plans ==
  { [no_fly_zones |-> NoZones, start |-> <<0, 0>>, end |-> <<6, 0>>],
    [no_fly_zones |-> Wall, start |-> <<0, 0>>, end |-> <<8, 0>>],
    [no_fly_zones |-> Wall, start |-> <<4, 2>>, end |-> <<8, 0>>],
    [no_fly_zones |-> Ring, start |-> <<0, 0>>, end |-> <<6, 0>>],
    [no_fly_zones |-> NoZones, start |-> <<0, 0>>, end |-> <<4, 1>>] }

SearchIdle == [NewSearch(NoZones, <<0, 0>>, <<0, 0>>) EXCEPT !.pc = "idle", !.open_set = <<>>,
                                                            !.g_score = EmptyDict]

\* ------------------------------------------- one cell under the random walk
\* The fields of a WeatherCondition that _evolve_weather moves: wind_speed
\* m/s, wind_direction degrees, precipitation mm/h, visibility km,
\* pressure in units of 100 hPa, turbulence and cloud_coverage in percent.
\* A cell as _generate_base_conditions can draw it (weather.py:76-87).
NewCell ==
  [wind_speed |-> 4, wind_direction |-> 270, precipitation |-> 1,
   visibility |-> 10, pressure |-> 10, turbulence |-> 20, cloud_coverage |-> 60]

\* What the random.gauss draws of one _evolve_weather call add: a step
\* down, none, or a step up, one draw for the pressure and one for the
\* other fields.
Steps == {0 - 1, 0, 1}
WalkDraws == [pressure : Steps, rest : Steps]

\* The WeatherCondition _evolve_weather returns (weather.py:113-122), with
\* the clamp each field has there.
EvolveFields(c, draw) ==
  [wind_speed |-> Max(0, c.wind_speed + draw.rest),
   wind_direction |-> (c.wind_direction + 90 * draw.rest) % 360,
   precipitation |-> Max(0, c.precipitation + draw.rest),
   visibility |-> Max(2, c.visibility + draw.rest),
   pressure |-> c.pressure + draw.pressure,
   turbulence |-> Max(0, Min(100, c.turbulence + 20 * draw.rest)),
   cloud_coverage |-> Max(0, Min(100, c.cloud_coverage + 20 * draw.rest))]

\* The fields without an upper clamp are followed MaxDrift steps away
\* from where they began.
WithinDrift(c) ==
  /\ c.wind_speed <= NewCell.wind_speed + MaxDrift
  /\ c.precipitation <= NewCell.precipitation + MaxDrift
  /\ c.visibility <= NewCell.visibility + MaxDrift
  /\ Abs(c.pressure - NewCell.pressure) <= MaxDrift

\* ------------------------------- a drone built with its own specification
\* The altitude limits of a DroneSpecification (drone.py:24-25), a plain
\* dataclass: Drone(position, specification) takes any values; without a
\* specification the limits are 50 and 400 (drone.py:46-47).
MinAltitudes == {MinAltitudeSpec, 150}
MaxAltitudes == {300, MaxAltitudeSpec}
Specifications == [min_altitude : MinAltitudes, max_altitude : MaxAltitudes]
DefaultSpecification ==
  [min_altitude |-> MinAltitudeSpec, max_altitude |-> MaxAltitudeSpec]

\* Drone.__init__ (drone.py:33-58): the altitude is 100.0 whatever the
\* specification says.
NewCraft(position, specification) ==
  [specification |-> specification, drone |-> NewDrone(position)]

\* Drone._is_safe_altitude (drone.py:225-227) of a drone with the given
\* specification.
IsSafeAltitudeFor(specification, altitude) ==
  specification.min_altitude <= altitude /\ altitude <= specification.max_altitude

\* The simulator, its thread, a reader and the planner before any call.
SimInit ==
  /\ weather_sim = NewWeatherSimulator
  /\ writer = WriterIdle
  /\ reader = ReaderIdle
  /\ search = SearchIdle
  /\ cell = NewCell
  /\ craft = NewCraft(base_position, DefaultSpecification)

\* ------------------------------------------------------------- inputs
StartPositions == {base_position}
Destinations == {3, MaxPos}
Payloads == {2}
PlanningFields == {Uniform(Calm), [Uniform(Calm) EXCEPT ![10] = Storm]}
TickFields == {Uniform(Calm), Uniform(Storm)}
CallPositions == {base_position, 3, MaxPos}
CallAltitudes == {NoAltitude, 30, 200}
CallWeather == {NoWeather, GivenWeather(Calm), GivenWeather(Storm)}
CallPayloads == {1, 2}
PatchStatuses == {"unset", "charging", "returning", "delivering"}
PatchScores == {0 - 1, 70000}
Threads == {"t1", "t2"}

\* A thread's locals inside a call.  replaced is a history field: the entry
\* delivery_routes had for best_drone.id when the thread wrote fleet.py:110
\* (<<>> for none; a stored route is never empty).
NoLocal == [best |-> "None", route |-> <<>>, destination |-> 0,
            payload_weight |-> 0, todo |-> <<>>, current_time |-> 0,
            replaced |-> <<>>]

Init ==
  /\ drones = EmptyDict
  /\ drone_order = <<>>
  /\ created = {}
  /\ delivery_routes = EmptyDict
  /\ active_deliveries = EmptyDict
  /\ forecast_data = 0
  /\ now = 0
  /\ ret = Returned("init", "None")
  /\ lock = "free"
  /\ pc = [t \in Threads |-> "ready"]
  /\ local = [t \in Threads |-> NoLocal]
  /\ SimInit

\* FleetManager.add_drone with a newly constructed Drone (ids are handed
\* out in one order: uuid4 values carry no meaning).
AddDrone(d, position) ==
  /\ lock = "free"
  /\ d \notin created
  /\ d = "d1" \/ "d1" \in created
  /\ created' = created \cup {d}
  /\ drones' = Put(drones, d, NewDrone(position))
  /\ drone_order' = Append(drone_order, d)
  /\ ret' = Returned("add_drone", d)
  /\ UNCHANGED <<delivery_routes, active_deliveries, forecast_data, now, threadvars, simvars>>

\* A DELETE handler without the status check of drone.py:122-123.
DeleteAnyDrone(d) ==
  /\ d \in created
  /\ IF d \in DOMAIN drones
     THEN /\ Install(remove_drone(FleetState, d))
          /\ ret' = Returned("delete_drone", "True")
     ELSE /\ UNCHANGED <<drones, drone_order, delivery_routes, active_deliveries>>
          /\ ret' = Returned("delete_drone", "error")
  /\ UNCHANGED <<created, forecast_data, now, threadvars, simvars>>

\* DELETE /drones/{id} (delete_drone): 400 unless the drone exists and is
\* idle, else FleetManager.remove_drone.
DeleteDrone(d) ==
  /\ d \in created
  /\ IF d \in DOMAIN drones /\ drones[d].status = "idle"
     THEN /\ Install(remove_drone(FleetState, d))
          /\ ret' = Returned("delete_drone", "True")
     ELSE /\ UNCHANGED <<drones, drone_order, delivery_routes, active_deliveries>>
          /\ ret' = Returned("delete_drone", "error")
  /\ UNCHANGED <<created, forecast_data, now, threadvars, simvars>>

\* FleetManager.assign_delivery as one call.
AssignDelivery(destination, payload_weight, field) ==
  LET r == assign_delivery(FleetState, forecast_data, now, destination,
                           payload_weight, field)
  IN  /\ Install(r.st)
      /\ ret' = Returned("assign_delivery", r.val)
      /\ UNCHANGED <<created, forecast_data, now, threadvars, simvars>>

\* FleetManager.update_fleet_status as one call.
UpdateFleetStatus(field) ==
  LET st == update_fleet_status(FleetState, now, field)
  IN  /\ Install(st)
      /\ ret' = Returned("update_fleet_status", IF st.raised THEN "raised" ELSE "None")
      /\ UNCHANGED <<created, forecast_data, now, threadvars, simvars>>

\* Drone.update_position called on a drone of the fleet.
UpdatePosition(d, new_position, new_altitude, w) ==
  /\ d \in DOMAIN drones
  /\ LET r == update_position(drones[d], new_position, new_altitude, w)
     IN  /\ drones' = [drones EXCEPT ![d] = r.drone]
         /\ ret' = Returned("update_position",
                             IF r.raised THEN "raised"
                             ELSE IF r.ok THEN "True" ELSE "False")
  /\ UNCHANGED <<drone_order, created, delivery_routes, active_deliveries,
                 forecast_data, now, threadvars, simvars>>

\* Drone.start_delivery called on a drone of the fleet.
StartDelivery(d, destination, payload_weight) ==
  /\ d \in DOMAIN drones
  /\ LET r == start_delivery(drones[d], destination, payload_weight)
     IN  /\ drones' = [drones EXCEPT ![d] = r.drone]
         /\ ret' = Returned("start_delivery", IF r.ok THEN "True" ELSE "False")
  /\ UNCHANGED <<drone_order, created, delivery_routes, active_deliveries,
                 forecast_data, now, threadvars, simvars>>

\* PATCH /drones/{id} (update_drone): 400 unless the drone exists and is
\* idle, else setattr of every field sent.
UpdateDrone(d, status, maintenance_score) ==
  /\ d \in created
  /\ IF d \in DOMAIN drones /\ drones[d].status = "idle"
     THEN /\ drones' = [drones EXCEPT
                          ![d].status = IF status = "unset" THEN @ ELSE status,
                          ![d].maintenance_score =
                             IF maintenance_score < 0 THEN @ ELSE maintenance_score]
          /\ ret' = Returned("update_drone", "True")
     ELSE /\ UNCHANGED drones
          /\ ret' = Returned("update_drone", "error")
  /\ UNCHANGED <<drone_order, created, delivery_routes, active_deliveries,
                 forecast_data, now, threadvars, simvars>>

\* POST /drones/{id}/emergency-return (emergency_return).
EmergencyReturn(d) ==
  /\ d \in created
  /\ IF d \in DOMAIN drones
     THEN /\ drones' = [drones EXCEPT ![d].status = "emergency"]
          /\ ret' = Returned("emergency_return", "True")
     ELSE /\ UNCHANGED drones
          /\ ret' = Returned("emergency_return", "error")
  /\ UNCHANGED <<drone_order, created, delivery_routes, active_deliveries,
                 forecast_data, now, threadvars, simvars>>

\* FleetManager.get_drone with any id.
GetDrone(d) ==
  /\ ret' = Returned("get_drone", get_drone(FleetState, d))
  /\ UNCHANGED <<drones, drone_order, created, delivery_routes, active_deliveries,
                 forecast_data, now, threadvars, simvars>>

\* FleetManager.get_drone_route with any id.
GetDroneRoute(d) ==
  /\ ret' = Returned("get_drone_route", get_drone_route(FleetState, d))
  /\ UNCHANGED <<drones, drone_order, created, delivery_routes, active_deliveries,
                 forecast_data, now, threadvars, simvars>>

\* WeatherSimulator.update_conditions, run by the weather thread:
\* _update_forecast adds 24 snapshots under the timestamps now + h hours
\* (weather.py:126-129), keys no earlier call has used; nothing is ever
\* removed from forecast_data.
UpdateConditions ==
  /\ forecast_data < MaxForecastCalls * ForecastHours
  /\ forecast_data' = forecast_data + ForecastHours
  /\ UNCHANGED <<drones, drone_order, created, delivery_routes, active_deliveries,
                 now, ret, threadvars, simvars>>

\* The clock advances one minute.
Tock ==
  /\ now < MaxTime
  /\ now' = now + 1
  /\ UNCHANGED <<drones, drone_order, created, delivery_routes, active_deliveries,
                 forecast_data, ret, threadvars, simvars>>

\* The coordinator driven by one host thread, every call run to its end.
Next ==
  \/ \E d \in DroneIds, p \in StartPositions : AddDrone(d, p)
  \/ \E dest \in Destinations, pw \in Payloads, f \in PlanningFields :
        AssignDelivery(dest, pw, f)
  \/ \E f \in TickFields : UpdateFleetStatus(f)
  \/ UpdateConditions
  \/ Tock

Spec == Init /\ [][Next]_vars

\* A fleet of one drone under the scheduling of api/main.py:37-41 (the tick
\* task runs every 5 s for ever) and a clock that does not stop before
\* MaxTime.
FairNext ==
  \/ \E p \in StartPositions : AddDrone("d1", p)
  \/ \E dest \in Destinations, pw \in Payloads, f \in PlanningFields :
        AssignDelivery(dest, pw, f)
  \/ \E f \in TickFields : UpdateFleetStatus(f)
  \/ UpdateConditions
  \/ Tock

FairSpec ==
  /\ Init
  /\ [][FairNext]_vars
  /\ WF_vars(\E f \in TickFields : UpdateFleetStatus(f))
  /\ WF_vars(Tock)

\* A fleet of one drone behind the API: the coordinator's calls, the
\* handlers of api/routes/drone.py that write drone state, and the lookups.
ApiNext ==
  \/ \E p \in StartPositions : AddDrone("d1", p)
  \/ \E dest \in Destinations, pw \in Payloads, f \in PlanningFields :
        AssignDelivery(dest, pw, f)
  \/ \E f \in TickFields : UpdateFleetStatus(f)
  \/ UpdateConditions
  \/ Tock
  \/ \E d \in DroneIds : DeleteDrone(d)
  \/ \E d \in DroneIds, s \in PatchStatuses, m \in PatchScores : UpdateDrone(d, s, m)
  \/ \E d \in DroneIds : EmergencyReturn(d)
  \/ \E d \in DroneIds : GetDrone(d)
  \/ \E d \in DroneIds : GetDroneRoute(d)

SpecApi == Init /\ [][ApiNext]_vars

\* ---------------------------------------------------- one drone, called directly
DroneInit ==
  /\ drones = [d \in {"d1"} |-> NewDrone(base_position)]
  /\ drone_order = <<"d1">>
  /\ created = {"d1"}
  /\ delivery_routes = EmptyDict
  /\ active_deliveries = EmptyDict
  /\ forecast_data = 0
  /\ now = 0
  /\ ret = Returned("add_drone", "d1")
  /\ lock = "free"
  /\ pc = [t \in Threads |-> "ready"]
  /\ local = [t \in Threads |-> NoLocal]
  /\ SimInit

DroneNext ==
  \/ \E p \in CallPositions \cup {BadPosition}, a \in CallAltitudes,
        w \in CallWeather :
        UpdatePosition("d1", p, a, w)
  \/ \E dest \in Destinations, pw \in CallPayloads : StartDelivery("d1", dest, pw)

SpecDrone == DroneInit /\ [][DroneNext]_vars

\* ------------------------------------------- host threads on one FleetManager
\* assign_delivery takes no lock (fleet.py:66-122): a thread inside it can be
\* overtaken between any two of its statements.  update_fleet_status holds
\* _lock from its first statement to its last (fleet.py:182).
ThreadFields == {Uniform(Calm)}
ThreadDestinations == {3}

Goto(t, label) == pc' = [pc EXCEPT ![t] = label]

\* assign_delivery, fleet.py:70-106: the availability filter and the
\* candidate loop, which leave best_drone and best_route.
AssignScore(t, destination, payload_weight, field) ==
  /\ pc[t] = "ready"
  /\ LET available == get_available_drones(drones, drone_order)
     IN  IF available = <<>> \/ forecast_data = 0
         THEN /\ ret' = Returned("assign_delivery",
                                 IF available = <<>> THEN "None" ELSE "raised")
              /\ UNCHANGED <<pc, local>>
         ELSE LET best == ScoreLoop(available, drones, forecast_data, destination,
                                    payload_weight, field, NoBest)
              IN  /\ Goto(t, "scored")
                  /\ local' = [local EXCEPT ![t] =
                                 [NoLocal EXCEPT !.best = best.drone,
                                                 !.route = best.route,
                                                 !.destination = destination,
                                                 !.payload_weight = payload_weight]]
                  /\ UNCHANGED ret
  /\ UNCHANGED <<drones, drone_order, created, delivery_routes, active_deliveries,
                 forecast_data, now, lock, simvars>>

\* assign_delivery, fleet.py:110.
AssignStoreRoute(t) ==
  /\ pc[t] = "scored"
  /\ delivery_routes' = Put(delivery_routes, local[t].best, local[t].route)
  /\ local' = [local EXCEPT ![t].replaced =
                 IF local[t].best \in DOMAIN delivery_routes
                 THEN delivery_routes[local[t].best] ELSE <<>>]
  /\ Goto(t, "routed")
  /\ UNCHANGED <<drones, drone_order, created, active_deliveries, forecast_data,
                 now, ret, lock, simvars>>

\* assign_delivery, fleet.py:113 and, when the drone refuses, :122.
AssignStart(t) ==
  /\ pc[t] = "routed"
  /\ LET r == start_delivery(drones[local[t].best], local[t].destination,
                             local[t].payload_weight)
     IN  /\ drones' = [drones EXCEPT ![local[t].best] = r.drone]
         /\ IF r.ok
            THEN Goto(t, "started") /\ UNCHANGED <<ret, local>>
            ELSE /\ Goto(t, "ready")
                 /\ local' = [local EXCEPT ![t] = NoLocal]
                 /\ ret' = Returned("assign_delivery", "None")
  /\ UNCHANGED <<drone_order, created, delivery_routes, active_deliveries,
                 forecast_data, now, lock, simvars>>

\* assign_delivery, fleet.py:114-120.
AssignRecord(t) ==
  /\ pc[t] = "started"
  /\ active_deliveries' =
       Put(active_deliveries, local[t].best,
           DeliveryRecord(local[t].destination, local[t].payload_weight, now,
                          local[t].route))
  /\ ret' = Returned("assign_delivery", local[t].best)
  /\ Goto(t, "ready")
  /\ local' = [local EXCEPT ![t] = NoLocal]
  /\ UNCHANGED <<drones, drone_order, created, delivery_routes, forecast_data,
                 now, lock, simvars>>

\* update_fleet_status, fleet.py:182-185: take the lock, read the clock,
\* start the loop over the drones.
TickEnter(t) ==
  /\ pc[t] = "ready"
  /\ lock = "free"
  /\ lock' = t
  /\ Goto(t, "tick")
  /\ local' = [local EXCEPT ![t] =
                 [NoLocal EXCEPT !.todo = drone_order, !.current_time = now]]
  /\ UNCHANGED <<drones, drone_order, created, delivery_routes, active_deliveries,
                 forecast_data, now, ret, simvars>>

\* The drone the loop is at has run through its route: fleet.py:187-194
\* take the else branch of :195.
AtCompletion(t) ==
  LET d == Head(local[t].todo)
  IN  /\ InDelivery(drones[d], d, FleetState)
      /\ d \in DOMAIN active_deliveries
      /\ PointIndex(local[t].current_time, active_deliveries[d].start_time)
           >= Len(delivery_routes[d])

\* One iteration of the tick with the lock taken by acquire() and no
\* try/finally around the loop: an exception leaves it held.
TickStepKeepsLock(t, field) ==
  /\ pc[t] = "tick"
  /\ local[t].todo # <<>>
  /\ LET d == Head(local[t].todo)
     IN  IF AtCompletion(t)
         THEN /\ drones' = [drones EXCEPT ![d] = complete_delivery(drones[d])]
              /\ Goto(t, "completing")
              /\ UNCHANGED <<drone_order, delivery_routes, active_deliveries, ret,
                             lock, local>>
         ELSE LET st == TickDrone(FleetState, d, local[t].current_time, field)
              IN  /\ Install(st)
                  /\ IF st.raised
                     THEN /\ UNCHANGED lock
                          /\ Goto(t, "ready")
                          /\ local' = [local EXCEPT ![t] = NoLocal]
                          /\ ret' = Returned("update_fleet_status", "raised")
                     ELSE /\ local' = [local EXCEPT ![t].todo = Tail(@)]
                          /\ UNCHANGED <<ret, lock, pc>>
  /\ UNCHANGED <<created, forecast_data, now, simvars>>

\* update_fleet_status, one iteration of the loop up to the end of
\* fleet.py:209 (complete_delivery), or the whole iteration when the
\* drone is not at completion; an exception ends the call and releases
\* the lock.
TickStep(t, field) ==
  /\ pc[t] = "tick"
  /\ local[t].todo # <<>>
  /\ LET d == Head(local[t].todo)
     IN  IF AtCompletion(t)
         THEN /\ drones' = [drones EXCEPT ![d] = complete_delivery(drones[d])]
              /\ Goto(t, "completing")
              /\ UNCHANGED <<drone_order, delivery_routes, active_deliveries, ret,
                             lock, local>>
         ELSE LET st == TickDrone(FleetState, d, local[t].current_time, field)
              IN  /\ Install(st)
                  /\ IF st.raised
                     THEN /\ lock' = "free"
                          /\ Goto(t, "ready")
                          /\ local' = [local EXCEPT ![t] = NoLocal]
                          /\ ret' = Returned("update_fleet_status", "raised")
                     ELSE /\ local' = [local EXCEPT ![t].todo = Tail(@)]
                          /\ UNCHANGED <<ret, lock, pc>>
  /\ UNCHANGED <<created, forecast_data, now, simvars>>

\* update_fleet_status, fleet.py:210-211.
TickDelete(t) ==
  /\ pc[t] = "completing"
  /\ LET d == Head(local[t].todo)
     IN  /\ delivery_routes' = Del(delivery_routes, d)
         /\ active_deliveries' = Del(active_deliveries, d)
  /\ Goto(t, "tick")
  /\ local' = [local EXCEPT ![t].todo = Tail(@)]
  /\ UNCHANGED <<drones, drone_order, created, forecast_data, now, ret, lock, simvars>>

\* update_fleet_status: the loop is over, the with block releases the lock.
TickExit(t) ==
  /\ pc[t] = "tick"
  /\ local[t].todo = <<>>
  /\ lock' = "free"
  /\ Goto(t, "ready")
  /\ local' = [local EXCEPT ![t] = NoLocal]
  /\ ret' = Returned("update_fleet_status", "None")
  /\ UNCHANGED <<drones, drone_order, created, delivery_routes, active_deliveries,
                 forecast_data, now, simvars>>

\* Two drones at base and a first forecast: the fleet when deliveries start
\* to come in.
ThreadsInit ==
  /\ drones = [d \in DroneIds |-> NewDrone(base_position)]
  /\ drone_order = <<"d1", "d2">>
  /\ created = DroneIds
  /\ delivery_routes = EmptyDict
  /\ active_deliveries = EmptyDict
  /\ forecast_data = ForecastHours
  /\ now = 0
  /\ ret = Returned("add_drone", "d2")
  /\ lock = "free"
  /\ pc = [t \in Threads |-> "ready"]
  /\ local = [t \in Threads |-> NoLocal]
  /\ SimInit

ThreadsNext ==
  \/ \E t \in Threads, dest \in ThreadDestinations, pw \in Payloads,
        f \in ThreadFields :
        AssignScore(t, dest, pw, f)
  \/ \E t \in Threads : AssignStoreRoute(t)
  \/ \E t \in Threads : AssignStart(t)
  \/ \E t \in Threads : AssignRecord(t)
  \/ \E t \in Threads : TickEnter(t)
  \/ \E t \in Threads, f \in ThreadFields : TickStep(t, f)
  \/ \E t \in Threads : TickDelete(t)
  \/ \E t \in Threads : TickExit(t)
  \/ Tock

SpecThreads == ThreadsInit /\ [][ThreadsNext]_vars

\* ------------------------------------------------- threads at the fleet lock
\* A thread calls one of the three methods that take _lock (fleet.py:47,
\* 53, 182) and blocks at the with statement until the lock is free.
LockedCalls == {"add_drone", "remove_drone", "update_fleet_status"}
Waiting(t) == pc[t] \in {"wait_add_drone", "wait_remove_drone", "wait_update_fleet_status"}
Holding(t) == pc[t] \in {"adding", "removing", "tick", "completing"}

CallLocked(t, op) ==
  /\ pc[t] = "ready"
  /\ Goto(t, IF op = "add_drone" THEN "wait_add_drone"
             ELSE IF op = "remove_drone" THEN "wait_remove_drone"
             ELSE "wait_update_fleet_status")
  /\ UNCHANGED <<drones, drone_order, created, delivery_routes, active_deliveries,
                 forecast_data, now, ret, lock, local, simvars>>

\* with self._lock: of add_drone and remove_drone (fleet.py:47, 53).
Acquire(t) ==
  /\ pc[t] \in {"wait_add_drone", "wait_remove_drone"}
  /\ lock = "free"
  /\ lock' = t
  /\ Goto(t, IF pc[t] = "wait_add_drone" THEN "adding" ELSE "removing")
  /\ UNCHANGED <<drones, drone_order, created, delivery_routes, active_deliveries,
                 forecast_data, now, ret, local, simvars>>

\* with self._lock: of update_fleet_status (fleet.py:182-185).
TickAcquire(t) ==
  /\ pc[t] = "wait_update_fleet_status"
  /\ lock = "free"
  /\ lock' = t
  /\ Goto(t, "tick")
  /\ local' = [local EXCEPT ![t] =
                 [NoLocal EXCEPT !.todo = drone_order, !.current_time = now]]
  /\ UNCHANGED <<drones, drone_order, created, delivery_routes, active_deliveries,
                 forecast_data, now, ret, simvars>>

\* add_drone, fleet.py:48-49 and the end of the with block; the new drone
\* is d2, or d2 again under the same id when it was removed.
AddLocked(t) ==
  /\ pc[t] = "adding"
  /\ drones' = Put(drones, "d2", NewDrone(base_position))
  /\ drone_order' = IF "d2" \in DOMAIN drones THEN drone_order
                    ELSE Append(drone_order, "d2")
  /\ created' = created \cup {"d2"}
  /\ ret' = Returned("add_drone", "d2")
  /\ lock' = "free"
  /\ Goto(t, "ready")
  /\ UNCHANGED <<delivery_routes, active_deliveries, forecast_data, now, local,
                 simvars>>

\* remove_drone("d2"), fleet.py:54-57 and the end of the with block.
RemoveLocked(t) ==
  /\ pc[t] = "removing"
  /\ Install(remove_drone(FleetState, "d2"))
  /\ ret' = Returned("remove_drone",
                     IF "d2" \in DOMAIN drones THEN "True" ELSE "False")
  /\ lock' = "free"
  /\ Goto(t, "ready")
  /\ UNCHANGED <<created, forecast_data, now, local, simvars>>

\* The one delivery request of this scenario: assign_delivery on d1, the
\* only drone, statement by statement and without the lock.
LockAssignScore(t) ==
  /\ DOMAIN drones = {"d1"}
  /\ delivery_routes = EmptyDict
  /\ \A u \in Threads : pc[u] \notin {"scored", "routed", "started"}
  /\ \E dest \in ThreadDestinations, pw \in Payloads, f \in ThreadFields :
        AssignScore(t, dest, pw, f)

\* One drone at base and a first forecast.
LockInit ==
  /\ drones = [d \in {"d1"} |-> NewDrone(base_position)]
  /\ drone_order = <<"d1">>
  /\ created = {"d1"}
  /\ delivery_routes = EmptyDict
  /\ active_deliveries = EmptyDict
  /\ forecast_data = ForecastHours
  /\ now = 0
  /\ ret = Returned("add_drone", "d1")
  /\ lock = "free"
  /\ pc = [t \in Threads |-> "ready"]
  /\ local = [t \in Threads |-> NoLocal]
  /\ SimInit

LockNext ==
  \/ \E t \in Threads, op \in LockedCalls : CallLocked(t, op)
  \/ \E t \in Threads : Acquire(t)
  \/ \E t \in Threads : TickAcquire(t)
  \/ \E t \in Threads : AddLocked(t)
  \/ \E t \in Threads : RemoveLocked(t)
  \/ \E t \in Threads, f \in ThreadFields : TickStep(t, f)
  \/ \E t \in Threads : TickExit(t)
  \/ \E t \in Threads : LockAssignScore(t)
  \/ \E t \in Threads : AssignStoreRoute(t)
  \/ \E t \in Threads : AssignStart(t)
  \/ \E t \in Threads : AssignRecord(t)

\* The clock stands still (no delivery completes here).  A thread inside a
\* with block runs on to its end, and a thread blocked at the lock gets it
\* when it is free again and again.
SpecLock ==
  /\ LockInit
  /\ [][LockNext]_vars
  /\ \A t \in Threads :
        /\ WF_vars(AddLocked(t))
        /\ WF_vars(RemoveLocked(t))
        /\ WF_vars(\E f \in ThreadFields : TickStep(t, f))
        /\ WF_vars(TickExit(t))
        /\ SF_vars(Acquire(t))
        /\ SF_vars(TickAcquire(t))

\* --------------------------------------- weather thread and its readers
fleetvars_but_craft == <<drones, drone_order, created, delivery_routes,
                         active_deliveries, forecast_data, now, ret, threadvars>>
fleetvars == <<drones, drone_order, created, delivery_routes, active_deliveries,
               forecast_data, now, ret, threadvars, cell, craft>>

\* update_weather, fleet.py:36-40: the thread wakes and update_conditions
\* begins; the random source of this run is drawn.
WriterStart(draw) ==
  /\ writer.pc = "sleeping"
  /\ writer.run < MaxForecastRuns
  /\ writer' = [pc |-> "evolve", todo |-> GridOrder, hour |-> 0,
                run |-> writer.run + 1, draw |-> draw]
  /\ UNCHANGED <<weather_sim, reader, fleetvars, search>>

\* update_conditions, weather.py:92-96: one cell is replaced by its evolved
\* reading; after the last one _update_forecast begins.
WriterEvolve ==
  /\ writer.pc = "evolve"
  /\ LET position == Head(writer.todo)
         old == weather_sim.current_conditions[position]
     IN  weather_sim' =
           [weather_sim EXCEPT !.current_conditions[position] =
              Cell(_evolve_weather(old.conditions, writer.draw), writer.run)]
  /\ writer' = IF Len(writer.todo) > 1
               THEN [writer EXCEPT !.todo = Tail(@)]
               ELSE [writer EXCEPT !.pc = "forecast", !.todo = GridOrder, !.hour = 0]
  /\ UNCHANGED <<reader, fleetvars, search>>

\* _update_forecast, weather.py:128-144: one cell of one snapshot is
\* written; the snapshot's dict is created by its first cell.
WriterForecast ==
  /\ writer.pc = "forecast"
  /\ LET current_time == RunPeriod * (writer.run - 1)
         forecast_time == current_time + 60 * writer.hour
         position == Head(writer.todo)
         fd == weather_sim.forecast_data
         snapshot == IF forecast_time \in DOMAIN fd THEN fd[forecast_time] ELSE EmptyDict
         value == IF writer.hour = 0
                  THEN weather_sim.current_conditions[position]
                  ELSE Cell(_evolve_weather(fd[forecast_time - 60][position].conditions,
                                            writer.draw),
                            writer.run)
     IN  weather_sim' =
           [weather_sim EXCEPT
              !.forecast_data = Put(fd, forecast_time, Put(snapshot, position, value)),
              !.forecast_times = IF forecast_time \in DOMAIN fd THEN @
                                 ELSE Append(@, forecast_time)]
  /\ writer' = IF Len(writer.todo) > 1
               THEN [writer EXCEPT !.todo = Tail(@)]
               ELSE IF writer.hour + 1 < ForecastHours
               THEN [writer EXCEPT !.todo = GridOrder, !.hour = @ + 1]
               ELSE [writer EXCEPT !.pc = "sleeping", !.todo = <<>>, !.hour = 0]
  /\ UNCHANGED <<reader, fleetvars, search>>

\* A caller enters get_conditions or get_safe_altitude.
ReadCall(call, position, time) ==
  /\ reader.pc \in {"idle", "done"}
  /\ reader' = [ReaderIdle EXCEPT !.call = call, !.position = position,
                                  !.time = time, !.i = 1,
                                  !.pc = IF time = NoTime THEN "interpolate"
                                         ELSE "lookup"]
  /\ UNCHANGED <<weather_sim, writer, fleetvars, search>>

\* get_conditions, weather.py:154-159: the key list is read and the nearest
\* snapshot chosen, or None returned when there is no key.
ReadForecastTimes ==
  /\ reader.pc = "lookup"
  /\ LET keys == weather_sim.forecast_times
     IN  reader' =
           IF keys = <<>>
           THEN [reader EXCEPT !.pc = "done", !.result = NoConditions,
                               !.altitude = safe_altitude_of(NoConditions)]
           ELSE [reader EXCEPT !.pc = "interpolate", !.keys = keys,
                               !.source = nearest_time(keys, reader.time)]
  /\ UNCHANGED <<weather_sim, writer, fleetvars, search>>

\* _interpolate_conditions, weather.py:200-206: the next nearby point is
\* read from the live dict; after the fourth the condition is built.
ReadPoint ==
  /\ reader.pc = "interpolate"
  /\ LET conditions_dict == IF reader.source = NoTime
                            THEN weather_sim.current_conditions
                            ELSE weather_sim.forecast_data[reader.source]
         point == nearby_points(reader.position)[reader.i]
         sums == AddPoint(reader.sums, conditions_dict, reader.position, point)
         steps == IF point \in DOMAIN conditions_dict
                  THEN reader.steps \cup {conditions_dict[point].step}
                  ELSE reader.steps
         partial == \/ reader.partial
                    \/ reader.source # NoTime /\ DOMAIN conditions_dict # GridPoints
         result == WeatherCondition(sums, reader.position)
     IN  reader' =
           IF reader.i < 4
           THEN [reader EXCEPT !.i = @ + 1, !.sums = sums, !.steps = steps,
                               !.partial = partial]
           ELSE [reader EXCEPT !.pc = "done", !.sums = sums, !.steps = steps,
                               !.partial = partial, !.result = result,
                               !.altitude = safe_altitude_of(result)]
  /\ UNCHANGED <<weather_sim, writer, fleetvars, search>>

WeatherNext ==
  \/ \E draw \in Draws : WriterStart(draw)
  \/ WriterEvolve
  \/ WriterForecast
  \/ \E call \in Queries, position \in QueryPositions, time \in QueryTimes :
        ReadCall(call, position, time)
  \/ ReadForecastTimes
  \/ ReadPoint

SpecWeather == Init /\ [][WeatherNext]_vars

\* ------------------------------------------------------ route planning
\* calculate_route is called: _a_star_search sets up its open set.
PlanRoute(plan) ==
  /\ search.pc \in {"idle", "returned"}
  /\ search' = NewSearch(plan.no_fly_zones, plan.start, plan.end)
  /\ UNCHANGED <<fleetvars, weather_sim, writer, reader>>

\* route.py:80-84: the popped node is within the goal radius; the path is
\* rebuilt and calculate_route returns the profiled, smoothed route.
AStarFound ==
  /\ search.pc = "searching"
  /\ search.open_set # <<>>
  /\ LET current == Head(search.open_set)[2]
     IN  /\ _calculate_distance(current, search.end) < GoalRadius
         /\ search' = [search EXCEPT
                         !.pc = "returned",
                         !.open_set = Tail(@),
                         !.route = RouteOfPath(search.no_fly_zones,
                                               _reconstruct_path(search.came_from, current))]
  /\ UNCHANGED <<fleetvars, weather_sim, writer, reader>>

\* route.py:80-98: the popped node is not the goal; it is closed and its
\* neighbours are relaxed.
AStarExpand ==
  /\ search.pc = "searching"
  /\ search.open_set # <<>>
  /\ search.expansions < MaxExpansions
  /\ LET current == Head(search.open_set)[2]
         popped == [search EXCEPT !.open_set = Tail(@),
                                  !.closed_set = @ \cup {current},
                                  !.expansions = @ + 1]
     IN  /\ ~(_calculate_distance(current, search.end) < GoalRadius)
         /\ search' = Relax(popped, current,
                            get_neighbors(search.no_fly_zones, current), 1)
  /\ UNCHANGED <<fleetvars, weather_sim, writer, reader>>

\* route.py:100 and 41-42: the open set is empty, the search returns [] and
\* so does calculate_route.
AStarExhausted ==
  /\ search.pc = "searching"
  /\ search.open_set = <<>>
  /\ search' = [search EXCEPT !.pc = "returned", !.route = RouteOfPath(search.no_fly_zones, <<>>)]
  /\ UNCHANGED <<fleetvars, weather_sim, writer, reader>>

RouteNext ==
  \/ \E plan \in Plans : PlanRoute(plan)
  \/ AStarFound
  \/ AStarExpand
  \/ AStarExhausted

SpecRoute == Init /\ [][RouteNext]_vars

\* ----------------------------------- the altitude of a drone of any specification
\* Drone(position, specification).
BuildCraft(position, specification) ==
  /\ craft' = NewCraft(position, specification)
  /\ UNCHANGED <<fleetvars_but_craft, weather_sim, writer, reader, search, cell>>

\* Drone.start_delivery on the drone built.
CraftStartDelivery(destination, payload_weight) ==
  /\ craft' = [craft EXCEPT !.drone =
                 start_delivery(@, destination, payload_weight).drone]
  /\ UNCHANGED <<fleetvars_but_craft, weather_sim, writer, reader, search, cell>>

\* Drone.update_position on the drone built: the altitude gate of
\* drone.py:123 with the drone's own limits, then the rest of the call,
\* which assigns new_altitude at drone.py:141-142 when nothing refused.
CraftUpdatePosition(new_position, new_altitude, w) ==
  /\ IF new_altitude # NoAltitude /\ new_position # BadPosition
        /\ ~IsSafeAltitudeFor(craft.specification, new_altitude)
     THEN UNCHANGED craft
     ELSE LET r == update_position(craft.drone, new_position, NoAltitude, w)
          IN  craft' = [craft EXCEPT !.drone =
                          IF r.ok /\ new_altitude # NoAltitude
                          THEN [r.drone EXCEPT !.altitude = new_altitude]
                          ELSE r.drone]
  /\ UNCHANGED <<fleetvars_but_craft, weather_sim, writer, reader, search, cell>>

\* FleetManager._handle_unsafe_weather (fleet.py:219-231) on the drone built,
\* called by the tick for an in_transit drone in unsafe conditions c.
CraftUnsafeWeather(c) ==
  /\ craft.drone.status = "in_transit"
  /\ ~is_safe_for_flight(c)
  /\ LET safe_altitude == get_safe_altitude(c)
     IN  craft' = [craft EXCEPT !.drone =
                     IF safe_altitude <= PlannerMaxAltitude
                     THEN [@ EXCEPT !.altitude = safe_altitude]
                     ELSE [@ EXCEPT !.status = "returning"]]
  /\ UNCHANGED <<fleetvars_but_craft, weather_sim, writer, reader, search, cell>>

AltitudeNext ==
  \/ \E p \in StartPositions, s \in Specifications : BuildCraft(p, s)
  \/ \E dest \in Destinations, pw \in CallPayloads : CraftStartDelivery(dest, pw)
  \/ \E p \in CallPositions, a \in CallAltitudes, w \in CallWeather :
        CraftUpdatePosition(p, a, w)
  \/ \E c \in Conditions : CraftUnsafeWeather(c)

SpecAltitude == Init /\ [][AltitudeNext]_vars

\* ------------------------------------------------ the walk of one cell
\* update_conditions, weather.py:92-96, seen at one grid cell: the cell is
\* replaced by its evolved condition.
EvolveCell(draw) ==
  /\ WithinDrift(EvolveFields(cell, draw))
  /\ cell' = EvolveFields(cell, draw)
  /\ UNCHANGED <<drones, drone_order, created, delivery_routes, active_deliveries,
                 forecast_data, now, ret, threadvars, weather_sim, writer, reader,
                 search, craft>>

WalkNext == \E draw \in WalkDraws : EvolveCell(draw)

SpecWalk == Init /\ [][WalkNext]_vars

\* ------------------------------------------------------------ properties
\* What a call of update_position would draw from the battery.
PowerOfMove(dr, new_position, w) ==
  _calculate_power_consumption(dr, Distance(dr.position, new_position), w)

\* C1: Drone.update_position never leaves battery_level below the 20 %
\* emergency reserve.  For every drone state and every call: when the power
\* the move would consume would take the battery below the reserve, the call
\* returns False, position, last_position, altitude, battery_level, component
\* health, maintenance score and the carried delivery are as before, and the
\* status is either as before (the altitude gate refused first) or EMERGENCY,
\* EMERGENCY whenever the altitude and weather gates let the call through to
\* the power check; and after every call that returns True the battery is at
\* or above the reserve.
C1_ReserveKept ==
  [][\A p \in CallPositions, a \in CallAltitudes, w \in CallWeather :
       UpdatePosition("d1", p, a, w) =>
         LET dr == drones["d1"]
             after == drones'["d1"]
             breach == dr.battery_level - PowerOfMove(dr, p, w) < EmergencyReserve
             gated == \/ a # NoAltitude /\ ~_is_safe_altitude(a)
                      \/ w.given /\ ~_is_safe_weather(w)
         IN  /\ breach =>
                  /\ ret'.val = "False"
                  /\ after.position = dr.position
                  /\ after.last_position = dr.last_position
                  /\ after.altitude = dr.altitude
                  /\ after.battery_level = dr.battery_level
                  /\ after.component_health = dr.component_health
                  /\ after.maintenance_score = dr.maintenance_score
                  /\ after.current_delivery = dr.current_delivery
                  /\ after.status \in {dr.status, "emergency"}
                  /\ ~gated => after.status = "emergency"
             /\ ret'.val = "True" => after.battery_level >= EmergencyReserve
             /\ after.battery_level >= EmergencyReserve]_vars

\* A call refused at the power check: the drone carries a delivery, is in
\* EMERGENCY with the low-battery message, and its battery is untouched
\* above the reserve.
C1_Witness ==
  /\ ret = Returned("update_position", "False")
  /\ drones["d1"].status = "emergency"
  /\ drones["d1"].emergency_status = "low_battery"
  /\ drones["d1"].current_delivery # <<>>
  /\ drones["d1"].battery_level >= EmergencyReserve
  /\ drones["d1"].battery_level < FullBattery

\* The drones the claims call qualified: IDLE, maintenance_score >= 80 and
\* battery_level >= 30.
Qualified(dr) ==
  /\ dr.status = "idle"
  /\ dr.maintenance_score >= MaintenanceGate
  /\ dr.battery_level >= 30000

\* C2: a drone that assign_delivery selects is IDLE with maintenance_score
\* >= 80 and battery_level >= 30 at the moment of selection, and the call
\* returns none when no drone of the fleet is so.
C2_SelectedQualifies ==
  [][\A dest \in Destinations, pw \in Payloads, f \in PlanningFields :
       AssignDelivery(dest, pw, f) =>
         /\ ret'.val \in DroneIds => Qualified(drones[ret'.val])
         /\ (\A d \in DOMAIN drones : ~Qualified(drones[d])) => ret'.val = "None"]_vars

\* C3: assign_delivery returns a drone id, neither none nor an exception,
\* whenever some drone of the fleet is IDLE with maintenance_score >= 80 and
\* battery_level >= 30 and a route to the destination is obtainable for it.
C3_QualifiedGetsAssigned ==
  [][\A dest \in Destinations, pw \in Payloads, f \in PlanningFields :
       (/\ AssignDelivery(dest, pw, f)
        /\ \E d \in DOMAIN drones :
              /\ Qualified(drones[d])
              /\ calculate_route(drones[d].position, dest, f) # <<>>)
       => ret'.val \in DroneIds]_vars

\* C4: when assign_delivery returns a drone id, that drone is IN_TRANSIT, a
\* route is stored under its id, the active-delivery record under its id
\* holds the destination and payload_weight of the call and the time of the
\* call as start_time, and no other drone, route or record has changed.
C4_AssignmentRecorded ==
  [][\A dest \in Destinations, pw \in Payloads, f \in PlanningFields :
       (AssignDelivery(dest, pw, f) /\ ret'.val \in DroneIds) =>
         LET d == ret'.val
         IN  /\ drones'[d].status = "in_transit"
             /\ d \in DOMAIN delivery_routes'
             /\ delivery_routes'[d] # <<>>
             /\ d \in DOMAIN active_deliveries'
             /\ active_deliveries'[d].destination = dest
             /\ active_deliveries'[d].payload_weight = pw
             /\ active_deliveries'[d].start_time = now
             /\ DOMAIN drones' = DOMAIN drones
             /\ \A o \in DOMAIN drones \ {d} :
                  /\ drones'[o] = drones[o]
                  /\ o \in DOMAIN delivery_routes' <=> o \in DOMAIN delivery_routes
                  /\ o \in DOMAIN delivery_routes => delivery_routes'[o] = delivery_routes[o]
                  /\ o \in DOMAIN active_deliveries' <=> o \in DOMAIN active_deliveries
                  /\ o \in DOMAIN active_deliveries =>
                       active_deliveries'[o] = active_deliveries[o]]_vars

\* assign_delivery has just handed a delivery to d2 while d1 is under way
\* with a route and a record of its own.
C4_Witness ==
  /\ ret = Returned("assign_delivery", "d2")
  /\ DOMAIN drones = DroneIds
  /\ drones["d2"].status = "in_transit"
  /\ drones["d1"].status = "in_transit"
  /\ DOMAIN delivery_routes = DroneIds
  /\ DOMAIN active_deliveries = DroneIds
  /\ active_deliveries["d2"].start_time = now
  /\ active_deliveries["d1"].start_time < now

\* A drone under way: IN_TRANSIT with a stored route and an active-delivery
\* record.
UnderWay(d) ==
  /\ d \in DOMAIN drones
  /\ drones[d].status = "in_transit"
  /\ d \in DOMAIN delivery_routes
  /\ d \in DOMAIN active_deliveries

\* The clock can still reach the minute at which floor(elapsed / 120 s)
\* equals the length of the route.
TimeToFinish(d) ==
  active_deliveries[d].start_time + PointMinutes * Len(delivery_routes[d]) <= MaxTime

\* floor(elapsed / 120 s) has reached the length of the route.
Due(d) ==
  PointIndex(now, active_deliveries[d].start_time) >= Len(delivery_routes[d])

IsIdle(d) == d \in DOMAIN drones /\ drones[d].status = "idle"

Completed(d) ==
  /\ IsIdle(d)
  /\ d \notin DOMAIN delivery_routes
  /\ d \notin DOMAIN active_deliveries

\* C6: a tick leaves a drone whose delivery has completed (IDLE, route and
\* record cleared) as it is: status, position, battery and every other
\* field of the drone, and no route entry and no record entry for it.
C6_TickIdempotent ==
  [][\A f \in TickFields :
       UpdateFleetStatus(f) =>
         \A d \in DroneIds :
           Completed(d) => /\ d \in DOMAIN drones'
                           /\ drones'[d] = drones[d]
                           /\ d \notin DOMAIN delivery_routes'
                           /\ d \notin DOMAIN active_deliveries']_vars

\* The fleet has just been ticked with d1's delivery over (IDLE at its
\* destination, battery spent on the way, no route, no record) and d2
\* moved along its own route.
C6_Witness ==
  /\ ret = Returned("update_fleet_status", "None")
  /\ Completed("d1")
  /\ drones["d1"].position = 3
  /\ drones["d1"].battery_level < FullBattery
  /\ UnderWay("d2")
  /\ drones["d2"].position # base_position

\* A thread between two statements of assign_delivery, and a thread inside
\* update_fleet_status.
InAssign(t) == pc[t] \in {"scored", "routed", "started"}
InTick(t) == pc[t] \in {"tick", "completing"}

\* C7: assign_delivery and update_fleet_status exclude each other: no thread
\* is inside a tick while another thread is between two statements of
\* assign_delivery (filter, scoring, route store, status change, record
\* store).
C7_AssignExcludesTick ==
  \A t \in Threads, u \in Threads : InAssign(t) /\ InTick(u) => t = u

\* C8: no double assignment.  The drone a call of assign_delivery picks is
\* IDLE and has no active-delivery record in the fleet the call scored, and
\* a call returns a drone only when no record of an earlier delivery of
\* that drone is still there.
C8_NoDoubleAssignment ==
  [][\A t \in Threads :
       /\ \A dest \in ThreadDestinations, pw \in Payloads, f \in ThreadFields :
            (AssignScore(t, dest, pw, f) /\ pc'[t] = "scored") =>
               /\ drones[local'[t].best].status = "idle"
               /\ local'[t].best \notin DOMAIN active_deliveries
       /\ AssignRecord(t) => local[t].best \notin DOMAIN active_deliveries]_vars

\* The allowed-transition table of the drone status.
AllowedTransitions ==
  {<<"idle", "in_transit">>, <<"in_transit", "delivering">>,
   <<"delivering", "returning">>, <<"returning", "idle">>,
   <<"idle", "charging">>, <<"charging", "idle">>}
    \cup {<<s, "emergency">> : s \in Statuses}

\* C9: every change of a drone's status follows the allowed-transition
\* table: IDLE -> IN_TRANSIT -> DELIVERING -> RETURNING -> IDLE,
\* IDLE -> CHARGING -> IDLE, and any status -> EMERGENCY.
C9_TransitionsAllowed ==
  [][\A d \in DOMAIN drones \cap DOMAIN drones' :
       drones'[d].status # drones[d].status =>
         <<drones[d].status, drones'[d].status>> \in AllowedTransitions]_vars

\* The drone d as the tick at the present time leaves it after the
\* update_position of fleet.py:198, before the weather check of :201-206.
MovedInTick(d) ==
  IF InDelivery(drones[d], d, FleetState) /\ d \in DOMAIN active_deliveries
  THEN LET route == delivery_routes[d]
           point_index == PointIndex(now, active_deliveries[d].start_time)
       IN  IF point_index < Len(route) /\ ListItem(route, point_index) # 0
           THEN update_position(drones[d], route[ListItem(route, point_index)].position,
                                NoAltitude, NoWeather).drone
           ELSE drones[d]
  ELSE drones[d]

\* C10: EMERGENCY is terminal inside the core.  No call of assign_delivery
\* or update_fleet_status changes the status of a drone that is in
\* EMERGENCY, and a drone that update_position puts into EMERGENCY during a
\* tick is in EMERGENCY when that tick returns, its unsafe-weather handling
\* included.
C10_EmergencyTerminal ==
  [][/\ \A d \in DOMAIN drones :
          drones[d].status = "emergency" =>
             d \in DOMAIN drones' /\ drones'[d].status = "emergency"
     /\ \A f \in TickFields :
          UpdateFleetStatus(f) =>
             \A d \in DOMAIN drones :
                MovedInTick(d).status = "emergency" =>
                   drones'[d].status = "emergency"]_vars

\* C11: in every reachable state an active-delivery record, and a stored
\* route, exists for a drone only while that drone is IN_TRANSIT: they are
\* gone once the drone has completed, has been aborted to RETURNING or has
\* entered EMERGENCY.
C11_RecordOnlyInTransit ==
  \A d \in DOMAIN active_deliveries \cup DOMAIN delivery_routes :
     d \in DOMAIN drones /\ drones[d].status = "in_transit"

\* C19: emergency_return on a known drone, in any status, leaves the drone
\* in EMERGENCY, its stored route replaced by a route from its position to
\* the base and its active-delivery record removed, and returns true; on an
\* unknown id it reports failure and changes no state.
C19_EmergencyReturn ==
  [][\A d \in DroneIds :
       EmergencyReturn(d) =>
         IF d \in DOMAIN drones
         THEN /\ ret'.val = "True"
              /\ drones'[d].status = "emergency"
              /\ d \in DOMAIN delivery_routes'
              /\ delivery_routes'[d] # <<>>
              /\ delivery_routes'[d][1].position = drones[d].position
              /\ delivery_routes'[d][Len(delivery_routes'[d])].position = base_position
              /\ d \notin DOMAIN active_deliveries'
         ELSE /\ ret'.val = "error"
              /\ UNCHANGED <<drones, drone_order, delivery_routes, active_deliveries>>]_vars

\* C20: get_drone with an unknown id and get_drone_route for a drone with
\* no stored route return None and do not raise, a known drone and a
\* stored route are returned, and neither lookup changes the drone table,
\* the routes or the active-delivery records.
C20_LookupsReturnAbsent ==
  [][\A d \in DroneIds :
       /\ GetDrone(d) =>
            /\ ret'.val = IF d \in DOMAIN drones THEN d ELSE "None"
            /\ UNCHANGED <<drones, drone_order, delivery_routes, active_deliveries>>
       /\ GetDroneRoute(d) =>
            /\ ret'.val = IF d \in DOMAIN delivery_routes THEN "route" ELSE "None"
            /\ UNCHANGED <<drones, drone_order, delivery_routes, active_deliveries>>]_vars

\* get_drone_route has returned None in a fleet whose drone has delivered
\* and holds no route any more.
C20_Witness ==
  /\ ret = Returned("get_drone_route", "None")
  /\ IsIdle("d1")
  /\ drones["d1"].position = 3
  /\ delivery_routes = EmptyDict
  /\ active_deliveries = EmptyDict


\* C15: weather reads are never torn.  Every finished get_conditions or
\* get_safe_altitude call has interpolated over cells that were all written
\* by one evolution step, and has not read from a forecast snapshot that
\* was only partly filled.
C15_NoTornRead ==
  reader.pc = "done" =>
    /\ Cardinality(reader.steps) <= 1
    /\ ~reader.partial

\* C16: get_conditions(position) returns the absent value for every
\* position outside the region bounds and a WeatherCondition for every
\* position inside them.
C16_OutsideIsUnavailable ==
  reader.pc = "done" /\ reader.time = NoTime =>
    (reader.result.is_none <=> ~InRegion(reader.position))

\* C17: get_conditions(position, time), for a position of the region,
\* interpolates over the stored snapshot nearest to time and, when no
\* snapshot exists, returns what get_conditions(position) returns from the
\* current grid, not None.
C17_ForecastFailsOpen ==
  reader.pc = "done" /\ reader.time # NoTime /\ InRegion(reader.position) =>
    IF reader.keys = <<>>
    THEN reader.result =
           _interpolate_conditions(reader.position, weather_sim.current_conditions)
    ELSE \A i \in 1..Len(reader.keys) :
            TimeGap(reader.source, reader.time) <= TimeGap(reader.keys[i], reader.time)

\* C18: get_flight_risks returns one entry per route point, each with a
\* defined is_safe verdict, for every route calculate_route produces and in
\* every state of the forecast store, the empty one included.
C18_OneRiskPerPoint ==
  \A start \in CallPositions, end \in Destinations, field \in PlanningFields :
     LET route == calculate_route(start, end, field)
         risks == get_flight_risks(route, field, forecast_data)
     IN  /\ Len(risks) = Len(route)
         /\ \A i \in 1..Len(risks) : risks[i].is_safe \in BOOLEAN


\* One grid cell, in the decimetres of _calculate_distance.
GridCell == _calculate_distance(<<0, 0>>, <<grid_size, 0>>)

\* C12: calculate_route always returns a non-empty route whose first point
\* is start and whose last point is within one grid cell of end, also when
\* the search finds no path.
C12_RouteNeverEmpty ==
  search.pc = "returned" =>
    /\ search.route # <<>>
    /\ search.route[1].position = search.start
    /\ _calculate_distance(search.route[Len(search.route)].position, search.end)
         <= GridCell

\* C13: the A* search stops: it has reached the target or it has given up
\* after at most 1000 node expansions.
C13_SearchWithinBudget == search.expansions <= 1000

C22_TickNeverRaises == ret # Returned("update_fleet_status", "raised")


\* ---------------------------------------------------------------------
\* The score assign_delivery gives drone d for a delivery (fleet.py:80-101).
ScoreOf(d, destination, payload_weight, field) ==
  LET route == calculate_route(drones[d].position, destination, field)
  IN  _calculate_route_score(drones[d], route,
                             get_flight_risks(route, field, forecast_data),
                             payload_weight)

\* C23: the drone assign_delivery selects has the highest score of the
\* available drones, and of those with the highest score it is the first
\* in the order of the drone table.
C23_SelectsFirstMaximum ==
  \A dest \in Destinations, pw \in Payloads, f \in PlanningFields :
    LET available == get_available_drones(drones, drone_order)
        r == assign_delivery(FleetState, forecast_data, now, dest, pw, f)
    IN  (forecast_data # 0 /\ r.val \in DOMAIN drones) =>
          \E i \in 1..Len(available) :
            /\ available[i] = r.val
            /\ \A j \in 1..Len(available) :
                 /\ ScoreOf(available[j], dest, pw, f) <= ScoreOf(available[i], dest, pw, f)
                 /\ j < i => ScoreOf(available[j], dest, pw, f)
                               < ScoreOf(available[i], dest, pw, f)

\* assign_delivery has just picked the first of two drones that were
\* equal in every input of the score.
C23_Witness ==
  /\ Len(drone_order) = 2
  /\ ret = Returned("assign_delivery", drone_order[1])
  /\ LET a == drones[drone_order[1]]
         b == drones[drone_order[2]]
     IN  /\ a.status = "in_transit"
         /\ drone_order[1] \in DOMAIN active_deliveries
         /\ active_deliveries[drone_order[1]].start_time = now
         /\ b.status = "idle"
         /\ b.maintenance_score >= MaintenanceGate
         /\ b.position = a.position
         /\ b.battery_level = a.battery_level
         /\ b.maintenance_score = a.maintenance_score


\* ---------------------------------------------------------------------
\* C24: the score of a candidate is 0.4 * maintenance_score
\* + 0.4 * battery_score + 0.2 * distance_score, with battery_score =
\* 100 * (1 - estimated power / battery level) and distance_score =
\* 100 / (1 + route km / 10); nothing else enters it (scores in
\* thousandths of a point, as _calculate_route_score).
C24_ScoreIsWeightedSum ==
  \A dest \in Destinations, pw \in Payloads, f \in PlanningFields :
    \A d \in DOMAIN drones :
      (forecast_data # 0 /\ drones[d].battery_level >= 100) =>
        LET dr == drones[d]
            route == calculate_route(dr.position, dest, f)
            estimated ==
              SumSeq([i \in 1..(Len(route) - 1) |->
                        calculate_power_consumption(
                          Distance(route[i].position, route[i + 1].position), pw)])
            battery_score == 100000 - (estimated * 1000) \div (dr.battery_level \div 100)
            distance_score == 10000000 \div (100 + RouteLength(route))
        IN  ScoreOf(d, dest, pw, f)
              = (4 * dr.maintenance_score + 4 * battery_score + 2 * distance_score) \div 10


\* ---------------------------------------------------------------------
\* C25: a call of update_position that the safety gate rejects (the new
\* altitude outside the drone's range, or weather with wind above
\* max_wind_speed) returns False and leaves every field of the drone as
\* it was.
C25_GateHasNoSideEffect ==
  \A d \in DOMAIN drones, p \in CallPositions, a \in CallAltitudes, w \in CallWeather :
    ((a # NoAltitude /\ ~_is_safe_altitude(a))
       \/ (w.given /\ w.wind_speed > MaxWindSpeed)) =>
      LET r == update_position(drones[d], p, a, w)
      IN  ~r.ok /\ r.drone = drones[d]


\* ---------------------------------------------------------------------
\* C26: update_position never raises: a rejection by a safety check and
\* an exception inside the update both come back as False, and after an
\* exception the drone is in EMERGENCY.
C26_FailureIsFalse ==
  /\ ret # Returned("update_position", "raised")
  /\ \A d \in DOMAIN drones, p \in CallPositions \cup {BadPosition},
        a \in CallAltitudes, w \in CallWeather :
       LET t == update_position_try(drones[d], p, a, w)
           r == update_position(drones[d], p, a, w)
       IN  /\ ~r.raised
           /\ (t.raised \/ ~t.ok) => ~r.ok
           /\ t.raised => r.drone.status = "emergency"

\* update_position has caught an exception: False, and EMERGENCY with
\* the text of the except clause.
C26_Witness ==
  /\ ret = Returned("update_position", "False")
  /\ drones["d1"].status = "emergency"
  /\ drones["d1"].emergency_status = "update_failed"


\* ---------------------------------------------------------------------
\* C27: maintenance_score is at all times the mean of the component
\* healths; nothing sets it on its own.
C27_ScoreIsMeanOfHealth ==
  \A d \in DOMAIN drones :
    drones[d].maintenance_score
      = SumOver(drones[d].component_health, Components) \div Cardinality(Components)


C29_TickUsesPointWeather ==
  [][\A f \in TickFields :
       UpdateFleetStatus(f) =>
         \A d \in DOMAIN drones :
           (/\ InDelivery(drones[d], d, FleetState)
            /\ d \in DOMAIN active_deliveries
            /\ PointIndex(now, active_deliveries[d].start_time) < Len(delivery_routes[d])
            /\ ListItem(delivery_routes[d],
                        PointIndex(now, active_deliveries[d].start_time)) # 0) =>
             LET route == delivery_routes[d]
                 point == route[ListItem(route,
                                 PointIndex(now, active_deliveries[d].start_time))]
                 c == conditions_at(f, point.position)
                 r == update_position(drones[d], point.position, point.altitude,
                                      GivenWeather(c))
             IN  /\ c.wind_speed > MaxWindSpeed =>
                      drones'[d].position = drones[d].position
                 /\ r.ok => drones'[d].position = point.position]_vars


\* ---------------------------------------------------------------------
\* C30: when the update_position of a tick fails for a drone in transit,
\* the same tick either sets the drone's altitude to the safe altitude of
\* the weather field (which then is within the planner's maximum) and
\* keeps the route and the record, or makes the drone RETURNING and
\* removes both.
C30_FailedUpdateHandled ==
  [][\A f \in TickFields :
       UpdateFleetStatus(f) =>
         \A d \in DOMAIN drones :
           (/\ InDelivery(drones[d], d, FleetState)
            /\ d \in DOMAIN active_deliveries
            /\ PointIndex(now, active_deliveries[d].start_time) < Len(delivery_routes[d])
            /\ ListItem(delivery_routes[d],
                        PointIndex(now, active_deliveries[d].start_time)) # 0
            /\ ~update_position(
                  drones[d],
                  delivery_routes[d][ListItem(delivery_routes[d],
                     PointIndex(now, active_deliveries[d].start_time))].position,
                  NoAltitude, NoWeather).ok) =>
             LET safe_altitude == get_safe_altitude(conditions_at(f, drones[d].position))
             IN  \/ /\ safe_altitude <= PlannerMaxAltitude
                    /\ drones'[d].altitude = safe_altitude
                    /\ d \in DOMAIN delivery_routes'
                    /\ d \in DOMAIN active_deliveries'
                 \/ /\ drones'[d].status = "returning"
                    /\ d \notin DOMAIN delivery_routes'
                    /\ d \notin DOMAIN active_deliveries']_vars


\* ---------------------------------------------------------------------
\* C31: a drone starts charging only from idle and with less than 95 % of
\* battery; while it charges, a tick adds 20 % per hour charged, never
\* takes the battery above 100 %, and makes the drone idle as soon as the
\* battery is at 95 % or more.
C31_ChargingOnlyBelow95 ==
  [][\A d \in DOMAIN drones \cap DOMAIN drones' :
       /\ (drones'[d].status = "charging" /\ drones[d].status # "charging") =>
             drones[d].status = "idle" /\ drones[d].battery_level < 95000
       /\ (drones[d].status = "charging" /\ (\E f \in TickFields : UpdateFleetStatus(f))) =>
             /\ drones'[d].battery_level = Min(FullBattery, drones[d].battery_level + 20000)
             /\ drones'[d].status = IF drones'[d].battery_level >= 95000
                                    THEN "idle" ELSE "charging"]_vars


\* ---------------------------------------------------------------------
\* C32: with ticks repeated, a drone that is CHARGING becomes IDLE, and a
\* drone that is RETURNING becomes IDLE at the base: no drone stays in
\* either for ever.
C32_TransientsEnd ==
  \A d \in DroneIds :
    /\ (d \in DOMAIN drones /\ drones[d].status = "charging") ~> IsIdle(d)
    /\ (d \in DOMAIN drones /\ drones[d].status = "returning") ~>
          (IsIdle(d) /\ drones[d].position = base_position)


\* ---------------------------------------------------------------------
\* C33: however many times update_conditions has run, every field of a
\* grid cell is inside its physical range: wind_speed, precipitation,
\* visibility and pressure not negative, wind_direction in [0, 360),
\* turbulence in 0..1 and cloud_coverage in 0..100 (both in percent
\* here); no field walks away without a limit.
C33_FieldsInRange ==
  /\ cell.wind_speed >= 0
  /\ cell.precipitation >= 0
  /\ 0 <= cell.wind_direction /\ cell.wind_direction < 360
  /\ cell.visibility >= 0
  /\ cell.pressure >= 0
  /\ 0 <= cell.turbulence /\ cell.turbulence <= 100
  /\ 0 <= cell.cloud_coverage /\ cell.cloud_coverage <= 100


\* ---------------------------------------------------------------------
\* C34: the forecast store is a rolling window of 24 hours: however many
\* times update_conditions has run, it holds the 24 hourly snapshots of
\* the last run and none of an earlier one.
C34_RollingWindow == forecast_data <= ForecastHours


C36_RoutesMatchRecords ==
  /\ DOMAIN delivery_routes = DOMAIN active_deliveries
  /\ DOMAIN delivery_routes \subseteq DOMAIN drones


\* C37: a failed assignment changes nothing.  On the step with which a
\* thread's assign_delivery returns None, the routes, the records and every
\* drone are as before the step, and when the call got as far as the start
\* (the chosen drone refused), the route it wrote at fleet.py:110 is the one
\* that was stored before.
C37_FailedAssignChangesNothing ==
  [][\A t \in Threads :
       (/\ pc[t] \in {"ready", "routed"}
        /\ pc'[t] = "ready"
        /\ local' # local \/ ret' # ret
        /\ ret' = Returned("assign_delivery", "None")
        /\ \A u \in Threads \ {t} : pc'[u] = pc[u])
       => /\ delivery_routes' = delivery_routes
          /\ active_deliveries' = active_deliveries
          /\ drones' = drones
          /\ pc[t] = "routed" => local[t].replaced = local[t].route]_vars


\* C38: the altitude of a drone is within the [min_altitude, max_altitude]
\* of its own specification: when it is built, whatever the specification,
\* after every update_position and after the coordinator's altitude
\* adjustment in unsafe weather.
C38_AltitudeWithinSpecification ==
  IsSafeAltitudeFor(craft.specification, craft.drone.altitude)


\* The drones a tick works on: in_transit with a stored route, charging or
\* returning (fleet.py:187, 214, 216).
TickHandles(d) ==
  \/ drones[d].status = "in_transit" /\ d \in DOMAIN delivery_routes
  \/ drones[d].status \in {"charging", "returning"}

\* C39: a tick changes only the drones that are in_transit with a stored
\* route, charging or returning.  Every other drone (idle, delivering,
\* maintenance, emergency, in_transit without a route) has the same status,
\* position, altitude, battery_level and component health after the tick,
\* and the tick adds and removes no drone.
C39_TickLeavesOthersAlone ==
  [][\A f \in TickFields :
       UpdateFleetStatus(f) =>
         /\ DOMAIN drones' = DOMAIN drones
         /\ drone_order' = drone_order
         /\ \A d \in DOMAIN drones :
              ~TickHandles(d) =>
                /\ drones'[d].status = drones[d].status
                /\ drones'[d].position = drones[d].position
                /\ drones'[d].altitude = drones[d].altitude
                /\ drones'[d].battery_level = drones[d].battery_level
                /\ drones'[d].component_health = drones[d].component_health
                /\ drones'[d].maintenance_score = drones[d].maintenance_score]_vars

\* A tick has returned with one drone moved along its route and another
\* drone, idle or in emergency after an earlier flight, in the fleet.
C39_Witness ==
  /\ ret = Returned("update_fleet_status", "None")
  /\ \E d \in DOMAIN drones, e \in DOMAIN drones :
        /\ d # e
        /\ drones[d].status = "in_transit"
        /\ drones[d].position # drones[d].last_position
        /\ drones[e].status \in {"idle", "emergency"}
        /\ drones[e].battery_level < FullBattery


\* C40: assign_delivery never ends in an error, whenever the weather thread
\* has or has not yet written its first forecast: with an empty risks list
\* or a candidate without battery the scoring gives a score or skips the
\* candidate.
C40_AssignNeverRaises == ret # Returned("assign_delivery", "raised")

=============================================================================
